---- MODULE Spec2Model ----
(***************************************************************************)
(* A model of MaxText/llama_or_mistral_ckpt.py: the conversion of a Llama  *)
(* or Mistral checkpoint into the MaxText weight tree.                     *)
(*                                                                         *)
(* Dotted names are kept as the sequence of their "."-separated fields,    *)
(* so key.split(".") is the key itself and an f-string is a tuple built    *)
(* with ToString.  Arrays are numpy arrays in C order: a shape and the     *)
(* flat sequence of the elements.  An element is not a number but the      *)
(* record of where it comes from in the source checkpoint.                 *)
(***************************************************************************)
EXTENDS Integers, Sequences, FiniteSets, TLC

(***************************************************************************)
(* Bounds of the model.  The real configurations (32..126 layers, 32..128  *)
(* heads, head dimension 128) are scaled down to these sizes.              *)
(***************************************************************************)
NumLayers == 2
NumHeads == 2
HeadDim == 3
NumExperts == 2
VocabSize == 2
MlpDim == 2
MaxShards == 2
MaxRank == 3
MaxLeaves == 2
MaxHalf == 2
MaxAdapters == 2

SIMULATED_CPU_DEVICES_COUNT == 16

VARIABLES
  \* save_weights_to_checkpoint: the sharding loop
  device_count,        \* the device_count argument
  leaves,              \* the shapes of the flattened leaves, as passed in
  jax_weights_flat,    \* the leaves not yet placed
  jax_weights_new,     \* the placed leaves, in order
  \* _HFNamespaceMapper
  collection,          \* the wrapped dict
  lookup_key,          \* the key of the last __getitem__
  lookup_result,       \* what the last __getitem__ returned or raised
  \* convert_to_jax_weights
  model_size,          \* the model_size argument
  huggingface_ckpt,    \* the huggingface_ckpt argument
  source,              \* what the directory base_model_path holds
  chkpt_vars,          \* the loaded checkpoint
  jax_weights,         \* the tree being filled: path -> leaf
  self_attention,      \* the attention kernels being stacked
  layer_weight,        \* the norm scales and feed-forward kernels being stacked
  layer_idx,           \* the index of the running loop over the layers
  pc,                  \* the section of the conversion that runs next
  err,                 \* the exception that ended the conversion, "" if none
  \* permute_to_match_maxtext_rope
  rope_arr,                 \* the arr argument
  rope_out,            \* what the call returned
  \* convert_lora_weights_to_jax_weights
  lora_config,         \* the lora_config argument and what lora_model_path holds
  lora_chkpt_vars,     \* the loaded adapter
  self_attention_lora, \* the factors being stacked
  jax_weights_lora,    \* the tree being filled: path -> leaf or None
  lora_layer_idx,      \* the index of the running loop over the layers
  lora_pc,             \* the section of the LoRA conversion that runs next
  lora_err,            \* the exception that ended the LoRA conversion
  \* __main__
  args,                \* the command line and what its directories hold
  lora_ids,            \* the adapters the loop has not reached yet
  lora_id,             \* the adapter of the running iteration, "base" before the loop
  checkpoint_manager,  \* the checkpoint manager of the running save
  main_pc,             \* the statement of __main__ that runs next
  main_err,            \* the exception that ended the run, "" if none
  trace                \* what the run has done so far, in order

varsShard == <<device_count, leaves, jax_weights_flat, jax_weights_new>>
varsMapper == <<collection, lookup_key, lookup_result>>
varsConv == <<model_size, huggingface_ckpt, source, chkpt_vars, jax_weights,
              self_attention, layer_weight, layer_idx, pc, err>>
varsRope == <<rope_arr, rope_out>>
varsLora == <<lora_config, lora_chkpt_vars, self_attention_lora, jax_weights_lora,
              lora_layer_idx, lora_pc, lora_err>>
varsMain == <<args, lora_ids, lora_id, checkpoint_manager, main_pc, main_err, trace>>
vars == <<varsShard, varsMapper, varsConv, varsRope, varsLora, varsMain>>

Max(S) == CHOOSE x \in S : \A y \in S : y <= x
Min(S) == CHOOSE x \in S : \A y \in S : x <= y

LayerIdxs == 0 .. (NumLayers - 1)
ExpertIdxs == 0 .. (NumExperts - 1)

(***************************************************************************)
(* Python dictionaries: a function on the set of its keys.  A dict literal *)
(* keeps the last value given for a key.                                   *)
(***************************************************************************)
DictOf(items) ==
  [k \in {items[i][1] : i \in DOMAIN items} |->
     items[Max({i \in DOMAIN items : items[i][1] = k})][2]]

EmptyDict == DictOf(<<>>)

(***************************************************************************)
(* Name-mapping tables.                                                    *)
(***************************************************************************)
_hf_mapping(layer_index, expert_index) ==
  LET l == ToString(layer_index)
      e == ToString(expert_index)
  IN DictOf(<<
    << <<"tok_embeddings", "weight">>, <<"model", "embed_tokens", "weight">> >>,
    << <<"norm", "weight">>, <<"model", "norm", "weight">> >>,
    << <<"output", "weight">>, <<"lm_head", "weight">> >>,
    << <<"layers", l, "attention_norm", "weight">>, <<"model", "layers", l, "input_layernorm", "weight">> >>,
    << <<"layers", l, "ffn_norm", "weight">>, <<"model", "layers", l, "post_attention_layernorm", "weight">> >>,
    << <<"layers", l, "attention", "wq", "weight">>, <<"model", "layers", l, "self_attn", "q_proj", "weight">> >>,
    << <<"layers", l, "attention", "wk", "weight">>, <<"model", "layers", l, "self_attn", "k_proj", "weight">> >>,
    << <<"layers", l, "attention", "wv", "weight">>, <<"model", "layers", l, "self_attn", "v_proj", "weight">> >>,
    << <<"layers", l, "attention", "wo", "weight">>, <<"model", "layers", l, "self_attn", "o_proj", "weight">> >>,
    << <<"layers", l, "feed_forward", "gate", "weight">>, <<"model", "layers", l, "block_sparse_moe", "gate", "weight">> >>,
    << <<"layers", l, "feed_forward", "experts", e, "w1", "weight">>, <<"model", "layers", l, "block_sparse_moe", "experts", e, "w1", "weight">> >>,
    << <<"layers", l, "feed_forward", "experts", e, "w2", "weight">>, <<"model", "layers", l, "block_sparse_moe", "experts", e, "w2", "weight">> >>,
    << <<"layers", l, "feed_forward", "experts", e, "w3", "weight">>, <<"model", "layers", l, "block_sparse_moe", "experts", e, "w3", "weight">> >>,
    << <<"layers", l, "feed_forward", "w1", "weight">>, <<"model", "layers", l, "mlp", "gate_proj", "weight">> >>,
    << <<"layers", l, "feed_forward", "w2", "weight">>, <<"model", "layers", l, "mlp", "down_proj", "weight">> >>,
    << <<"layers", l, "feed_forward", "w3", "weight">>, <<"model", "layers", l, "mlp", "up_proj", "weight">> >>,
    << <<"layers", l, "attention", "wq", "lora_A", "weights">>, <<"base_model", "model", "model", "layers", l, "self_attn", "q_proj", "lora_A", "weight">> >>,
    << <<"layers", l, "attention", "wq", "lora_B", "weights">>, <<"base_model", "model", "model", "layers", l, "self_attn", "q_proj", "lora_B", "weight">> >>,
    << <<"layers", l, "attention", "wk", "lora_A", "weights">>, <<"base_model", "model", "model", "layers", l, "self_attn", "k_proj", "lora_A", "weight">> >>,
    << <<"layers", l, "attention", "wk", "lora_B", "weights">>, <<"base_model", "model", "model", "layers", l, "self_attn", "k_proj", "lora_B", "weight">> >>,
    << <<"layers", l, "attention", "wv", "lora_A", "weights">>, <<"base_model", "model", "model", "layers", l, "self_attn", "v_proj", "lora_A", "weight">> >>,
    << <<"layers", l, "attention", "wv", "lora_B", "weights">>, <<"base_model", "model", "model", "layers", l, "self_attn", "v_proj", "lora_B", "weight">> >>,
    << <<"layers", l, "attention", "wo", "lora_A", "weights">>, <<"base_model", "model", "model", "layers", l, "self_attn", "o_proj", "lora_A", "weight">> >>,
    << <<"layers", l, "attention", "wo", "lora_B", "weights">>, <<"base_model", "model", "model", "layers", l, "self_attn", "o_proj", "lora_B", "weight">> >>
  >>)

\* a bug: the names of the gate and up projections of the dense MLP exchanged
_hf_to_maxtext_mapping_swapped(layer_index, expert_index) ==
  LET l == ToString(layer_index)
      e == ToString(expert_index)
  IN DictOf(<<
    << <<"model", "embed_tokens", "weight">>, <<"tok_embeddings", "weight">> >>,
    << <<"model", "norm", "weight">>, <<"norm", "weight">> >>,
    << <<"lm_head", "weight">>, <<"output", "weight">> >>,
    << <<"model", "layers", l, "input_layernorm", "weight">>, <<"layers", l, "attention_norm", "weight">> >>,
    << <<"model", "layers", l, "post_attention_layernorm", "weight">>, <<"layers", l, "ffn_norm", "weight">> >>,
    << <<"model", "layers", l, "self_attn", "q_proj", "weight">>, <<"layers", l, "attention", "wq", "weight">> >>,
    << <<"model", "layers", l, "self_attn", "k_proj", "weight">>, <<"layers", l, "attention", "wk", "weight">> >>,
    << <<"model", "layers", l, "self_attn", "v_proj", "weight">>, <<"layers", l, "attention", "wv", "weight">> >>,
    << <<"model", "layers", l, "self_attn", "o_proj", "weight">>, <<"layers", l, "attention", "wo", "weight">> >>,
    << <<"model", "layers", l, "self_attn", "rotary_emb", "inv_freq">>, <<"layers", l, "attention", "rotary_emb", "inv_freq">> >>,
    << <<"model", "layers", l, "block_sparse_moe", "gate", "weight">>, <<"layers", l, "feed_forward", "gate", "weight">> >>,
    << <<"model", "layers", l, "block_sparse_moe", "experts", e, "w1", "weight">>, <<"layers", l, "feed_forward", "experts", e, "w1", "weight">> >>,
    << <<"model", "layers", l, "block_sparse_moe", "experts", e, "w2", "weight">>, <<"layers", l, "feed_forward", "experts", e, "w2", "weight">> >>,
    << <<"model", "layers", l, "block_sparse_moe", "experts", e, "w3", "weight">>, <<"layers", l, "feed_forward", "experts", e, "w3", "weight">> >>,
    << <<"model", "layers", l, "mlp", "gate_proj", "weight">>, <<"layers", l, "feed_forward", "w3", "weight">> >>,
    << <<"model", "layers", l, "mlp", "down_proj", "weight">>, <<"layers", l, "feed_forward", "w2", "weight">> >>,
    << <<"model", "layers", l, "mlp", "up_proj", "weight">>, <<"layers", l, "feed_forward", "w1", "weight">> >>
  >>)

_hf_to_maxtext_mapping(layer_index, expert_index) ==
  LET l == ToString(layer_index)
      e == ToString(expert_index)
  IN DictOf(<<
    << <<"model", "embed_tokens", "weight">>, <<"tok_embeddings", "weight">> >>,
    << <<"model", "norm", "weight">>, <<"norm", "weight">> >>,
    << <<"lm_head", "weight">>, <<"output", "weight">> >>,
    << <<"model", "layers", l, "input_layernorm", "weight">>, <<"layers", l, "attention_norm", "weight">> >>,
    << <<"model", "layers", l, "post_attention_layernorm", "weight">>, <<"layers", l, "ffn_norm", "weight">> >>,
    << <<"model", "layers", l, "self_attn", "q_proj", "weight">>, <<"layers", l, "attention", "wq", "weight">> >>,
    << <<"model", "layers", l, "self_attn", "k_proj", "weight">>, <<"layers", l, "attention", "wk", "weight">> >>,
    << <<"model", "layers", l, "self_attn", "v_proj", "weight">>, <<"layers", l, "attention", "wv", "weight">> >>,
    << <<"model", "layers", l, "self_attn", "o_proj", "weight">>, <<"layers", l, "attention", "wo", "weight">> >>,
    << <<"model", "layers", l, "self_attn", "rotary_emb", "inv_freq">>, <<"layers", l, "attention", "rotary_emb", "inv_freq">> >>,
    << <<"model", "layers", l, "block_sparse_moe", "gate", "weight">>, <<"layers", l, "feed_forward", "gate", "weight">> >>,
    << <<"model", "layers", l, "block_sparse_moe", "experts", e, "w1", "weight">>, <<"layers", l, "feed_forward", "experts", e, "w1", "weight">> >>,
    << <<"model", "layers", l, "block_sparse_moe", "experts", e, "w2", "weight">>, <<"layers", l, "feed_forward", "experts", e, "w2", "weight">> >>,
    << <<"model", "layers", l, "block_sparse_moe", "experts", e, "w3", "weight">>, <<"layers", l, "feed_forward", "experts", e, "w3", "weight">> >>,
    << <<"model", "layers", l, "mlp", "gate_proj", "weight">>, <<"layers", l, "feed_forward", "w1", "weight">> >>,
    << <<"model", "layers", l, "mlp", "down_proj", "weight">>, <<"layers", l, "feed_forward", "w2", "weight">> >>,
    << <<"model", "layers", l, "mlp", "up_proj", "weight">>, <<"layers", l, "feed_forward", "w3", "weight">> >>
  >>)

(***************************************************************************)
(* _HFNamespaceMapper.__getitem__.  The result is [err, val]: err is ""    *)
(* when the lookup returns val, and the name of the exception raised       *)
(* otherwise.                                                              *)
(***************************************************************************)
Returned(v) == [err |-> "", val |-> v]
Raised(e) == [err |-> e, val |-> <<>>]

\* re.match(r"[0-9]+", field): the field starts with a decimal digit.  The
\* fields of this model are names or decimal numbers, so a field that starts
\* with a digit is the decimal notation of a number.
MaxNumField == 9
IsNumField(field) == \E n \in 0 .. MaxNumField : ToString(n) = field
IntOfField(field) == CHOOSE n \in 0 .. MaxNumField : ToString(n) = field

RECURSIVE NumFieldsOf(_)
NumFieldsOf(fields) ==
  IF fields = <<>> THEN <<>>
  ELSE (IF IsNumField(Head(fields)) THEN <<IntOfField(Head(fields))>> ELSE <<>>)
       \o NumFieldsOf(Tail(fields))

\* a bug: the numbers are handed over in the wrong order
HfMappingOfFields_expert_first(num_fields) ==
  _hf_mapping(IF Len(num_fields) >= 2 THEN num_fields[2] ELSE -1,
              IF Len(num_fields) >= 1 THEN num_fields[1] ELSE -1)

\* _hf_mapping(*num_fields): positional arguments, defaults -1, at most two.
HfMappingOfFields(num_fields) ==
  _hf_mapping(IF Len(num_fields) >= 1 THEN num_fields[1] ELSE -1,
              IF Len(num_fields) >= 2 THEN num_fields[2] ELSE -1)

\* a bug: the mapped name is tried before the literal one
HFNamespaceMapper_getitem_mapped_first(coll, key) ==
  LET num_fields == NumFieldsOf(key)
      mapping == HfMappingOfFields(num_fields)
  IN IF Len(num_fields) <= 2 /\ key \in DOMAIN mapping /\ mapping[key] \in DOMAIN coll
       THEN Returned(coll[mapping[key]])
     ELSE IF key \in DOMAIN coll THEN Returned(coll[key])
     ELSE Raised("ValueError")

HFNamespaceMapper_getitem(coll, key) ==
  IF key \in DOMAIN coll THEN Returned(coll[key])
  ELSE LET num_fields == NumFieldsOf(key)
       IN IF Len(num_fields) > 2 THEN Raised("TypeError")
          ELSE LET mapping == HfMappingOfFields(num_fields)
               IN IF key \notin DOMAIN mapping THEN Raised("ValueError")
                  ELSE IF mapping[key] \notin DOMAIN coll THEN Raised("ValueError")
                  ELSE Returned(coll[mapping[key]])

(***************************************************************************)
(* numpy arrays.  An array is [err, shape, data]: data holds the elements  *)
(* in C order.  An expression that raised is the array whose err names the *)
(* exception; every operation hands such an operand on unchanged, as the   *)
(* exception leaves the expression it is raised in.  Indices and axes are  *)
(* counted from 0, as in Python.                                           *)
(***************************************************************************)
Arr(shape, data) == [err |-> "", shape |-> shape, data |-> data]
ErrArr(e) == [err |-> e, shape |-> <<>>, data |-> <<>>]

RECURSIVE Prod(_)
Prod(s) == IF s = <<>> THEN 1 ELSE Head(s) * Prod(Tail(s))

Stride(shape, k) == Prod(SubSeq(shape, k + 1, Len(shape)))

\* the index tuple of the element at flat position n
Unravel(n, shape) == [k \in 1 .. Len(shape) |-> (n \div Stride(shape, k)) % shape[k]]

RECURSIVE RavelFrom(_, _, _, _)
RavelFrom(idx, shape, k, acc) ==
  IF k > Len(shape) THEN acc
  ELSE RavelFrom(idx, shape, k + 1, acc * shape[k] + idx[k])

\* the flat position of the element at index tuple idx
Ravel(idx, shape) == RavelFrom(idx, shape, 1, 0)

\* arr[idx]
At(a, idx) == a.data[Ravel(idx, a.shape) + 1]

\* an element of a source tensor: tensor kind k of layer l and expert e (-1
\* when the tensor has none), flat position i in the whole (unsharded) tensor;
\* f16: cast to float16; sc: divided by sqrt(sc) (0: not divided); s: the
\* index of the file it was loaded from (-1: not loaded from an indexed file)
Elem(k, l, e, i) ==
  [k |-> k, l |-> l, e |-> e, i |-> i, f16 |-> FALSE, sc |-> 0, s |-> -1]

\* the 0.0 of np.zeros(..., dtype=np.float16)
ZERO == [k |-> "zero", l |-> -1, e |-> -1, i |-> -1, f16 |-> TRUE, sc |-> 0, s |-> -1]

\* np.zeros(shape, dtype=np.float16)
np_zeros(shape) == Arr(shape, [n \in 1 .. Prod(shape) |-> ZERO])

\* t.type(torch.float16).numpy(), t.to(torch.float16).numpy()
to_float16(a) ==
  IF a.err # "" THEN a
  ELSE Arr(a.shape, [n \in 1 .. Len(a.data) |-> [a.data[n] EXCEPT !.f16 = TRUE]])

\* arr / np.sqrt(d)
divide_by_sqrt(a, d) ==
  IF a.err # "" THEN a
  ELSE Arr(a.shape, [n \in 1 .. Len(a.data) |->
                       IF a.data[n] = ZERO THEN ZERO ELSE [a.data[n] EXCEPT !.sc = d]])

\* np.transpose(arr, axes)
np_transpose(a, axes) ==
  IF a.err # "" THEN a
  ELSE IF Len(axes) # Len(a.shape) THEN ErrArr("ValueError")
  ELSE LET nd == Len(axes)
           newshape == [k \in 1 .. nd |-> a.shape[axes[k] + 1]]
           pos == [j \in 1 .. nd |-> CHOOSE k \in 1 .. nd : axes[k] + 1 = j]
           old(m) == [j \in 1 .. nd |-> m[pos[j]]]
       IN Arr(newshape,
              [n \in 1 .. Len(a.data) |-> At(a, old(Unravel(n - 1, newshape)))])

\* arr.transpose(): the axes reversed
transpose(a) ==
  IF a.err # "" THEN a
  ELSE np_transpose(a, [k \in 1 .. Len(a.shape) |-> Len(a.shape) - k])

\* np_reshape filling the new shape whatever the number of elements
np_reshape_lenient(a, newshape) ==
  IF a.err # "" THEN a
  ELSE Arr(newshape, [n \in 1 .. Prod(newshape) |-> a.data[((n - 1) % Len(a.data)) + 1]])

\* np.reshape(arr, newshape)
np_reshape(a, newshape) ==
  IF a.err # "" THEN a
  ELSE IF Prod(newshape) # Len(a.data) THEN ErrArr("ValueError")
  ELSE Arr(newshape, a.data)

RECURSIVE FirstErr(_)
FirstErr(arrs) ==
  IF arrs = <<>> THEN ""
  ELSE IF Head(arrs).err # "" THEN Head(arrs).err
  ELSE FirstErr(Tail(arrs))

RECURSIVE AxisSum(_, _)
AxisSum(arrs, ax) ==
  IF arrs = <<>> THEN 0 ELSE Head(arrs).shape[ax] + AxisSum(Tail(arrs), ax)

\* np.concatenate(arrs, axis): arrs is the list; an element that raised while
\* the list was built raises; the arrays must agree on every other axis
np_concatenate(arrs, axis) ==
  IF FirstErr(arrs) # "" THEN ErrArr(FirstErr(arrs))
  ELSE IF arrs = <<>> THEN ErrArr("ValueError")
  ELSE LET nd == Len(arrs[1].shape)
           ax == axis + 1
       IN IF \/ axis >= nd
             \/ \E i \in DOMAIN arrs :
                  \/ Len(arrs[i].shape) # nd
                  \/ \E k \in 1 .. nd : k # ax /\ arrs[i].shape[k] # arrs[1].shape[k]
            THEN ErrArr("ValueError")
          ELSE LET newshape == [arrs[1].shape EXCEPT ![ax] = AxisSum(arrs, ax)]
                   off == [i \in DOMAIN arrs |-> AxisSum(SubSeq(arrs, 1, i - 1), ax)]
                   part(x) == Max({i \in DOMAIN arrs : off[i] <= x})
                   el(m) == LET i == part(m[ax])
                            IN At(arrs[i], [m EXCEPT ![ax] = m[ax] - off[i]])
               IN Arr(newshape,
                      [n \in 1 .. Prod(newshape) |-> el(Unravel(n - 1, newshape))])

\* arr[start::step] along one axis (start >= 0, step >= 1), at most stop items
slice_axis(a, axis, start, step, stop) ==
  IF a.err # "" THEN a
  ELSE IF axis >= Len(a.shape) THEN ErrArr("IndexError")
  ELSE LET ax == axis + 1
           dim == a.shape[ax]
           hi == IF stop < dim THEN stop ELSE dim
           cnt == IF hi <= start THEN 0 ELSE (hi - start + step - 1) \div step
           newshape == [a.shape EXCEPT ![ax] = cnt]
       IN Arr(newshape,
              [n \in 1 .. Prod(newshape) |->
                 LET m == Unravel(n - 1, newshape)
                 IN At(a, [m EXCEPT ![ax] = start + step * m[ax]])])

\* whether an array of shape src can be assigned to a slot of shape dst:
\* numpy aligns the shapes at the right; a source axis must have the length of
\* the slot's axis or length 1; surplus leading source axes must have length 1
Broadcastable(src, dst) ==
  LET ns == Len(src)
      nt == Len(dst)
  IN \A j \in 1 .. ns :
       IF j > ns - nt THEN src[j] = dst[j - (ns - nt)] \/ src[j] = 1
       ELSE src[j] = 1

\* stack[lead[0], lead[1], ..., ...] = a
setitem(stack, lead, a) ==
  IF stack.err # "" THEN stack
  ELSE IF a.err # "" THEN a
  ELSE LET nl == Len(lead)
           slot == SubSeq(stack.shape, nl + 1, Len(stack.shape))
           ns == Len(a.shape)
           nt == Len(slot)
       IN IF \E k \in 1 .. nl : lead[k] >= stack.shape[k] THEN ErrArr("IndexError")
          ELSE IF ~Broadcastable(a.shape, slot) THEN ErrArr("ValueError")
          ELSE LET src(m) == [j \in 1 .. ns |->
                                IF j > ns - nt /\ a.shape[j] # 1 THEN m[nl + j - (ns - nt)] ELSE 0]
               IN Arr(stack.shape,
                      [n \in 1 .. Len(stack.data) |->
                         LET m == Unravel(n - 1, stack.shape)
                         IN IF \A k \in 1 .. nl : m[k] = lead[k]
                              THEN At(a, src(m))
                            ELSE stack.data[n]])

\* a bug: the odd positions come first
permute_odds_first(arr) ==
  IF arr.err # "" THEN arr
  ELSE LET last == Len(arr.shape) - 1
           evens == slice_axis(arr, last, 0, 2, arr.shape[last + 1])
           odds == slice_axis(arr, last, 1, 2, arr.shape[last + 1])
       IN np_concatenate(<<odds, evens>>, last)

\* permute_to_match_maxtext_rope: evens = arr[..., ::2]; odds = arr[..., 1::2];
\* np.concatenate((evens, odds), axis=arr.ndim - 1)
permute_to_match_maxtext_rope(arr) ==
  IF arr.err # "" THEN arr
  ELSE LET last == Len(arr.shape) - 1
           evens == slice_axis(arr, last, 0, 2, arr.shape[last + 1])
           odds == slice_axis(arr, last, 1, 2, arr.shape[last + 1])
       IN np_concatenate(<<evens, odds>>, last)

(***************************************************************************)
(* Model sizes.  A model-size string is the tuple of its characters, so    *)
(* that the slices model_size[:6] and model_size[:8] are taken as Python   *)
(* takes them.                                                             *)
(***************************************************************************)
llama2_70b == <<"l", "l", "a", "m", "a", "2", "-", "7", "0", "b">>
llama2_13b == <<"l", "l", "a", "m", "a", "2", "-", "1", "3", "b">>
llama2_7b == <<"l", "l", "a", "m", "a", "2", "-", "7", "b">>
llama3_8b == <<"l", "l", "a", "m", "a", "3", "-", "8", "b">>
llama3_70b == <<"l", "l", "a", "m", "a", "3", "-", "7", "0", "b">>
llama3_1_8b == <<"l", "l", "a", "m", "a", "3", ".", "1", "-", "8", "b">>
llama3_1_70b == <<"l", "l", "a", "m", "a", "3", ".", "1", "-", "7", "0", "b">>
llama3_1_405b == <<"l", "l", "a", "m", "a", "3", ".", "1", "-", "4", "0", "5", "b">>
llama3_3_70b == <<"l", "l", "a", "m", "a", "3", ".", "3", "-", "7", "0", "b">>
mistral_7b == <<"m", "i", "s", "t", "r", "a", "l", "-", "7", "b">>
mixtral_8x7b == <<"m", "i", "x", "t", "r", "a", "l", "-", "8", "x", "7", "b">>
mixtral_8x22b == <<"m", "i", "x", "t", "r", "a", "l", "-", "8", "x", "2", "2", "b">>

\* s[:n]
StrPrefix(str, n) == SubSeq(str, 1, IF n < Len(str) THEN n ELSE Len(str))

str_llama3 == <<"l", "l", "a", "m", "a", "3">>
str_llama3_1 == <<"l", "l", "a", "m", "a", "3", ".", "1">>
str_llama3_3 == <<"l", "l", "a", "m", "a", "3", ".", "3">>

\* MODEL_PARAMS_DICT, scaled: every size has NumLayers layers, NumHeads query
\* heads of HeadDim dimensions and VocabSize tokens; the sizes whose table
\* entry has num_kv_heads = num_heads keep that, the others have NumKvHeads
\* key/value heads; the mixtral sizes have NumExperts experts.
NumKvHeads == 1

MODEL_PARAMS_DICT ==
  DictOf(<<
    << llama2_70b, [num_layers |-> NumLayers, num_heads |-> NumHeads, num_kv_heads |-> NumKvHeads, dims_per_head |-> HeadDim, vocab |-> VocabSize] >>,
    << llama2_13b, [num_layers |-> NumLayers, num_heads |-> NumHeads, num_kv_heads |-> NumHeads, dims_per_head |-> HeadDim, vocab |-> VocabSize] >>,
    << llama2_7b, [num_layers |-> NumLayers, num_heads |-> NumHeads, num_kv_heads |-> NumHeads, dims_per_head |-> HeadDim, vocab |-> VocabSize] >>,
    << llama3_8b, [num_layers |-> NumLayers, num_heads |-> NumHeads, num_kv_heads |-> NumKvHeads, dims_per_head |-> HeadDim, vocab |-> VocabSize] >>,
    << llama3_70b, [num_layers |-> NumLayers, num_heads |-> NumHeads, num_kv_heads |-> NumKvHeads, dims_per_head |-> HeadDim, vocab |-> VocabSize] >>,
    << llama3_1_8b, [num_layers |-> NumLayers, num_heads |-> NumHeads, num_kv_heads |-> NumKvHeads, dims_per_head |-> HeadDim, vocab |-> VocabSize] >>,
    << llama3_1_70b, [num_layers |-> NumLayers, num_heads |-> NumHeads, num_kv_heads |-> NumKvHeads, dims_per_head |-> HeadDim, vocab |-> VocabSize] >>,
    << llama3_1_405b, [num_layers |-> NumLayers, num_heads |-> NumHeads, num_kv_heads |-> NumKvHeads, dims_per_head |-> HeadDim, vocab |-> VocabSize] >>,
    << llama3_3_70b, [num_layers |-> NumLayers, num_heads |-> NumHeads, num_kv_heads |-> NumKvHeads, dims_per_head |-> HeadDim, vocab |-> VocabSize] >>,
    << mistral_7b, [num_layers |-> NumLayers, num_heads |-> NumHeads, num_kv_heads |-> NumKvHeads, dims_per_head |-> HeadDim, vocab |-> VocabSize, base_emb_dim |-> NumHeads * HeadDim, base_mlp_dim |-> MlpDim] >>,
    << mixtral_8x7b, [num_layers |-> NumLayers, num_heads |-> NumHeads, num_kv_heads |-> NumKvHeads, dims_per_head |-> HeadDim, vocab |-> VocabSize, base_emb_dim |-> NumHeads * HeadDim, base_mlp_dim |-> MlpDim, num_experts |-> NumExperts] >>,
    << mixtral_8x22b, [num_layers |-> NumLayers, num_heads |-> NumHeads, num_kv_heads |-> NumKvHeads, dims_per_head |-> HeadDim, vocab |-> VocabSize, base_emb_dim |-> NumHeads * HeadDim, base_mlp_dim |-> MlpDim, num_experts |-> NumExperts] >>
  >>)

llama3_variants == {str_llama3_1, str_llama3_3}

(***************************************************************************)
(* save_weights_to_checkpoint: the sharding decision.  A sharding is its   *)
(* PartitionSpec, the tuple of what each leading axis is split over.       *)
(***************************************************************************)
s1 == <<"checkpoint_sharding_axis">>
s2 == <<"None", "checkpoint_sharding_axis">>
s3 == <<"None">>

\* jax.device_put(arr, device=s): the array (here its shape) with its sharding
device_put(shape, s) == [shape |-> shape, sharding |-> s]

\* a bug: the second axis is tried before the first
checkpoint_device_put_second_first(shape, n) ==
  IF Len(shape) > 1 /\ shape[2] % n = 0 THEN device_put(shape, s2)
  ELSE IF shape[1] % n = 0 THEN device_put(shape, s1)
  ELSE device_put(shape, s3)

\* a bug: the second axis is never tried
checkpoint_device_put_first_only(shape, n) ==
  IF shape[1] % n = 0 THEN device_put(shape, s1) ELSE device_put(shape, s3)

\* a bug: the operands of % are exchanged
checkpoint_device_put_reversed_mod(shape, n) ==
  IF n % shape[1] = 0 THEN device_put(shape, s1)
  ELSE IF Len(shape) > 1 /\ n % shape[2] = 0 THEN device_put(shape, s2)
  ELSE device_put(shape, s3)

checkpoint_device_put(shape, n) ==
  IF shape[1] % n = 0 THEN device_put(shape, s1)
  ELSE IF Len(shape) > 1 /\ shape[2] % n = 0 THEN device_put(shape, s2)
  ELSE device_put(shape, s3)

(***************************************************************************)
(* Specification SpecShard: the loop of save_weights_to_checkpoint over    *)
(* the flattened leaves.                                                   *)
(***************************************************************************)
ShardDims == {15, 32}
DeviceCounts == {1, 2, SIMULATED_CPU_DEVICES_COUNT}

RECURSIVE SeqsUpTo(_, _)
SeqsUpTo(S, n) ==
  IF n = 0 THEN {<<>>}
  ELSE LET P == SeqsUpTo(S, n - 1)
       IN P \cup {Append(q, x) : q \in {p \in P : Len(p) = n - 1}, x \in S}

LeafShapes == SeqsUpTo(ShardDims, MaxRank) \ {<<>>}
LeafLists == SeqsUpTo(LeafShapes, MaxLeaves) \ {<<>>}

NoLookup == [err |-> "none", val |-> <<>>]

MapperIdle ==
  /\ collection = EmptyDict
  /\ lookup_key = <<>>
  /\ lookup_result = NoLookup

ShardIdle ==
  /\ device_count = SIMULATED_CPU_DEVICES_COUNT
  /\ leaves = <<>>
  /\ jax_weights_flat = <<>>
  /\ jax_weights_new = <<>>

ConvIdle ==
  /\ model_size = <<>>
  /\ huggingface_ckpt = FALSE
  /\ source = <<>>
  /\ chkpt_vars = <<>>
  /\ jax_weights = EmptyDict
  /\ self_attention = <<>>
  /\ layer_weight = <<>>
  /\ layer_idx = 0
  /\ pc = "idle"
  /\ err = ""

RopeIdle ==
  /\ rope_arr = <<>>
  /\ rope_out = <<>>

LoraIdle ==
  /\ lora_config = <<>>
  /\ lora_chkpt_vars = <<>>
  /\ self_attention_lora = <<>>
  /\ jax_weights_lora = EmptyDict
  /\ lora_layer_idx = 0
  /\ lora_pc = "idle"
  /\ lora_err = ""

MainIdle ==
  /\ args = <<>>
  /\ lora_ids = <<>>
  /\ lora_id = "base"
  /\ checkpoint_manager = <<>>
  /\ main_pc = "idle"
  /\ main_err = ""
  /\ trace = <<>>

InitShard ==
  /\ device_count \in DeviceCounts
  /\ leaves \in LeafLists
  /\ jax_weights_flat = leaves
  /\ jax_weights_new = <<>>
  /\ MapperIdle
  /\ ConvIdle
  /\ RopeIdle
  /\ LoraIdle
  /\ MainIdle

\* jax_weight = jax_weights_flat.pop(0);
\* jax_weights_new.append(checkpoint_device_put(jax_weight))
PlaceLeaf ==
  /\ Len(jax_weights_flat) > 0
  /\ jax_weights_flat' = Tail(jax_weights_flat)
  /\ jax_weights_new' =
       Append(jax_weights_new, checkpoint_device_put(Head(jax_weights_flat), device_count))
  /\ UNCHANGED <<device_count, leaves, varsMapper, varsConv, varsRope, varsLora, varsMain>>

NextShard == PlaceLeaf

SpecShard == InitShard /\ [][NextShard]_vars

(***************************************************************************)
(* Specification SpecMapper: lookups through a _HFNamespaceMapper.         *)
(***************************************************************************)
Range(f) == {f[x] : x \in DOMAIN f}

MappingIdxs == (LayerIdxs \cup ExpertIdxs)

\* every (name, counterpart) pair of _hf_mapping over the model's indices
HfPairsAll ==
  UNION {{<<a, _hf_mapping(l, e)[a]>> : a \in DOMAIN _hf_mapping(l, e)} :
           l \in LayerIdxs, e \in ExpertIdxs}

HfToMaxtextPairsAll ==
  UNION {{<<b, _hf_to_maxtext_mapping(l, e)[b]>> : b \in DOMAIN _hf_to_maxtext_mapping(l, e)} :
           l \in LayerIdxs, e \in ExpertIdxs}

\* keys that no table knows: three numbers, an unknown name, a default index
JunkKeys ==
  { <<"layers", "0", "feed_forward", "experts", "1", "2", "weight">>,
    <<"rope", "freqs">>,
    <<"layers", "-1", "attention", "wq", "weight">> }

MapperKeys ==
  {p[1] : p \in HfPairsAll} \cup {p[2] : p \in HfPairsAll}
  \cup {p[1] : p \in HfToMaxtextPairsAll} \cup JunkKeys

\* the tensor stored under a key: known by the key it was stored under
TensorAt(k) == [stored_under |-> k]

MapperKeySets ==
  {{}} \cup {{k} : k \in MapperKeys} \cup {{p[1], p[2]} : p \in HfPairsAll}

InitMapper ==
  /\ \E ks \in MapperKeySets : collection = [k \in ks |-> TensorAt(k)]
  /\ lookup_key = <<>>
  /\ lookup_result = NoLookup
  /\ ShardIdle
  /\ ConvIdle
  /\ RopeIdle
  /\ LoraIdle
  /\ MainIdle

\* one lookup on the drawn collection: mapper[key]
Lookup(key) ==
  /\ lookup_result = NoLookup
  /\ lookup_key' = key
  /\ lookup_result' = HFNamespaceMapper_getitem(collection, key)
  /\ UNCHANGED <<collection, varsShard, varsConv, varsRope, varsLora, varsMain>>

NextMapper == \E key \in MapperKeys : Lookup(key)

SpecMapper == InitMapper /\ [][NextMapper]_vars

(***************************************************************************)
(* The source checkpoint.  source = [nshards, naming, defect] says what    *)
(* the directory base_model_path holds: how many files, whether the names  *)
(* are Meta's ("meta") or HuggingFace's ("hf"), and what is wrong with it  *)
(* ("none": every tensor is there with the shape the configuration         *)
(* implies).  A tensor is known by [kind, l, e]: its Meta name without the *)
(* indices, its layer and its expert (-1 where there is none).             *)
(***************************************************************************)
None == [none |-> TRUE]

Desc(kind, l, e) == [kind |-> kind, l |-> l, e |-> e]

HasExperts(p) == "num_experts" \in DOMAIN p

\* the tensors a checkpoint of configuration p holds
SrcTensors(p) ==
  {Desc(k, -1, -1) : k \in {"tok_embeddings", "norm", "output"}}
  \cup {Desc(k, l, -1) : k \in {"attention_norm", "ffn_norm", "wq", "wk", "wv", "wo"},
                         l \in 0 .. (p.num_layers - 1)}
  \cup (IF HasExperts(p)
          THEN {Desc("gate", l, -1) : l \in 0 .. (p.num_layers - 1)}
               \cup {Desc(k, l, e) : k \in {"w1", "w2", "w3"},
                                     l \in 0 .. (p.num_layers - 1),
                                     e \in 0 .. (p.num_experts - 1)}
        ELSE {Desc(k, l, -1) : k \in {"w1", "w2", "w3"}, l \in 0 .. (p.num_layers - 1)})

\* the shape the configuration implies (torch.nn.Linear keeps (out, in))
ConfigShape(kind, p) ==
  LET emb == p.num_heads * p.dims_per_head
      kvd == p.num_kv_heads * p.dims_per_head
  IN CASE kind \in {"tok_embeddings", "output"} -> <<p.vocab, emb>>
       [] kind \in {"norm", "attention_norm", "ffn_norm"} -> <<emb>>
       [] kind = "wq" -> <<emb, emb>>
       [] kind \in {"wk", "wv"} -> <<kvd, emb>>
       [] kind = "wo" -> <<emb, emb>>
       [] kind \in {"w1", "w3"} -> <<MlpDim, emb>>
       [] kind = "w2" -> <<emb, MlpDim>>
       [] kind = "gate" -> <<p.num_experts, emb>>

Defects ==
  {"missing_wq", "no_experts", "norm_len", "wq_rows", "wo_cols", "wk_swapped", "w1_row",
   "vocab_padded"}

\* the shape the tensor has in the checkpoint
SrcShape(d, p, defect) ==
  LET c == ConfigShape(d.kind, p)
  IN CASE defect = "norm_len" /\ d.kind = "attention_norm" -> <<c[1] + 1>>
       [] defect = "vocab_padded" /\ d.kind \in {"tok_embeddings", "output"} -> <<c[1] + 1, c[2]>>
       [] defect = "wq_rows" /\ d.kind = "wq" /\ d.l = 0 -> <<c[1] + 1, c[2]>>
       [] defect = "wo_cols" /\ d.kind = "wo" /\ d.l = p.num_layers - 1 -> <<c[1], c[2] + 1>>
       [] defect = "wk_swapped" /\ d.kind = "wk" -> <<c[2], c[1]>>
       [] defect = "w1_row" /\ d.kind = "w1" /\ d.l = p.num_layers - 1 /\ d.e <= 0 -> <<1, c[2]>>
       [] OTHER -> c

Present(d, p, defect) ==
  /\ ~(defect = "missing_wq" /\ d.kind = "wq" /\ d.l = p.num_layers - 1)
  /\ ~(defect = "no_experts" /\ d.e >= 0)

\* the whole tensor, every element known by its place
SrcTensor(d, p, defect) ==
  LET shape == SrcShape(d, p, defect)
  IN Arr(shape, [n \in 1 .. Prod(shape) |-> Elem(d.kind, d.l, d.e, n - 1)])

MetaKeyOf(d) ==
  LET l == ToString(d.l)
      e == ToString(d.e)
  IN CASE d.kind \in {"tok_embeddings", "norm", "output"} -> <<d.kind, "weight">>
       [] d.kind \in {"attention_norm", "ffn_norm"} -> <<"layers", l, d.kind, "weight">>
       [] d.kind \in {"wq", "wk", "wv", "wo"} -> <<"layers", l, "attention", d.kind, "weight">>
       [] d.kind = "gate" -> <<"layers", l, "feed_forward", "gate", "weight">>
       [] d.e >= 0 -> <<"layers", l, "feed_forward", "experts", e, d.kind, "weight">>
       [] OTHER -> <<"layers", l, "feed_forward", d.kind, "weight">>

KeyOf(d, naming) ==
  IF naming = "meta" THEN MetaKeyOf(d) ELSE _hf_mapping(d.l, d.e)[MetaKeyOf(d)]

\* The axis along which the files of a multi-file checkpoint split a tensor
\* (-1: every file holds the whole tensor): column-parallel layers along
\* axis 0, row-parallel layers along axis 1, the embedding along its hidden
\* axis before llama3 and along the vocabulary since.
ShardAxis(kind, size) ==
  CASE kind \in {"wq", "wk", "wv", "w1", "w3", "output", "gate"} -> 0
    [] kind \in {"wo", "w2"} -> 1
    [] kind = "tok_embeddings" -> IF StrPrefix(size, 6) = str_llama3 THEN 0 ELSE 1
    [] OTHER -> -1

\* the part of tensor a that file s (from 0) of n holds
Fragment(a, d, size, s, n) ==
  LET axis == ShardAxis(d.kind, size)
      paired == size = llama3_1_405b /\ d.kind \in {"wk", "wv"}
      groups == IF paired THEN (n + 1) \div 2 ELSE n
      g == IF paired THEN s \div 2 ELSE s
      dim == a.shape[axis + 1]
  IN IF axis = -1 THEN a
     ELSE slice_axis(a, axis, (g * dim) \div groups, 1, ((g + 1) * dim) \div groups)

\* array a as torch.load returns it from the file of index s
FromFile(a, s) ==
  IF a.err # "" THEN a
  ELSE Arr(a.shape, [n \in 1 .. Len(a.data) |-> [a.data[n] EXCEPT !.s = s]])

\* the files of a legacy checkpoint, in the order of their index
PthFiles(size, src) ==
  LET p == MODEL_PARAMS_DICT[size]
      ds == {d \in SrcTensors(p) : Present(d, p, src.defect)}
      keys == {KeyOf(d, src.naming) : d \in ds}
  IN [s \in 1 .. src.nshards |->
        [k \in keys |->
           LET d == CHOOSE x \in ds : KeyOf(x, src.naming) = k
           IN FromFile(Fragment(SrcTensor(d, p, src.defect), d, size, s - 1, src.nshards),
                       s - 1)]]

\* the files of a safetensors checkpoint: every tensor whole, in one file
SafetensorsFiles(size, src) ==
  LET p == MODEL_PARAMS_DICT[size]
      ds == {d \in SrcTensors(p) : Present(d, p, src.defect)}
      fileOf(d) == IF d.l < 0 THEN 1 ELSE (d.l % src.nshards) + 1
  IN [s \in 1 .. src.nshards |->
        LET mine == {d \in ds : fileOf(d) = s}
        IN [k \in {KeyOf(d, src.naming) : d \in mine} |->
              SrcTensor(CHOOSE x \in mine : KeyOf(x, src.naming) = k, p, src.defect)]]

(***************************************************************************)
(* Reading the loaded checkpoint.                                          *)
(***************************************************************************)
\* wrapped[key], wrapped a _HFNamespaceMapper
MapperGet(coll, key) ==
  LET r == HFNamespaceMapper_getitem(coll, key)
  IN IF r.err = "" THEN r.val ELSE ErrArr(r.err)

\* d[key], d a dict
DictGet(d, key) == IF key \in DOMAIN d THEN d[key] ELSE ErrArr("KeyError")

\* [var[key].type(torch.float16).numpy() for var in list_of_mappers]
Gather(mappers, key) ==
  [s \in 1 .. Len(mappers) |-> to_float16(MapperGet(mappers[s], key))]

\* list[::step]
Strided(list, step) ==
  [j \in 1 .. ((Len(list) + step - 1) \div step) |-> list[(j - 1) * step + 1]]

Put(d, k, v) == [x \in DOMAIN d \cup {k} |-> IF x = k THEN v ELSE d[x]]

\* the result of a section of code: the exception it raised, or its value
Done(arrs, v) ==
  IF FirstErr(arrs) # "" THEN [err |-> FirstErr(arrs), val |-> <<>>]
  ELSE [err |-> "", val |-> v]

attn_key(l, w) == <<"layers", ToString(l), "attention", w, "weight">>
norm_key(l, w) == <<"layers", ToString(l), w, "weight">>
ffn_key(l, w) == <<"layers", ToString(l), "feed_forward", w, "weight">>
expert_key(l, k, w) == <<"layers", ToString(l), "feed_forward", "experts", ToString(k), w, "weight">>

NoKernels4 == [query |-> None, key |-> None, value |-> None, out |-> None]

(***************************************************************************)
(* _convert_pytorch_to_jax_weights, section by section.                    *)
(***************************************************************************)
PT_decoder_norm(vars_, jw) ==
  LET scale == IF vars_ = <<>> THEN ErrArr("IndexError")
               ELSE to_float16(MapperGet(vars_[1], <<"norm", "weight">>))
  IN Done(<<scale>>, Put(jw, <<"decoder", "decoder_norm", "scale">>, scale))

PT_logits_dense(vars_, jw, p) ==
  LET logits_dense ==
        slice_axis(transpose(np_concatenate(Gather(vars_, <<"output", "weight">>), 0)),
                   1, 0, 1, p.vocab)
  IN Done(<<logits_dense>>, Put(jw, <<"decoder", "logits_dense", "kernel">>, logits_dense))

\* PT_token_embedding slicing for every size
PT_token_embedding_always_sliced(vars_, jw, p, size) ==
  LET frags == Gather(vars_, <<"tok_embeddings", "weight">>)
      token_embedder ==
        IF StrPrefix(size, 6) = str_llama3 THEN slice_axis(np_concatenate(frags, 0), 0, 0, 1, p.vocab)
        ELSE slice_axis(np_concatenate(frags, 1), 0, 0, 1, p.vocab)
  IN Done(<<token_embedder>>, Put(jw, <<"token_embedder", "embedding">>, token_embedder))

\* a bug: the embedding joined along the vocabulary axis for every size
PT_token_embedding_vocab_axis(vars_, jw, p, size) ==
  LET frags == Gather(vars_, <<"tok_embeddings", "weight">>)
      token_embedder ==
        IF StrPrefix(size, 6) = str_llama3 THEN np_concatenate(frags, 0)
        ELSE slice_axis(np_concatenate(frags, 0), 0, 0, 1, p.vocab)
  IN Done(<<token_embedder>>, Put(jw, <<"token_embedder", "embedding">>, token_embedder))

PT_token_embedding(vars_, jw, p, size) ==
  LET frags == Gather(vars_, <<"tok_embeddings", "weight">>)
      token_embedder ==
        IF StrPrefix(size, 6) = str_llama3 THEN np_concatenate(frags, 0)
        ELSE slice_axis(np_concatenate(frags, 1), 0, 0, 1, p.vocab)
  IN Done(<<token_embedder>>, Put(jw, <<"token_embedder", "embedding">>, token_embedder))

\* PT_rope deciding by the family prefix model_size[:6]
PT_rope_by_family(size) == StrPrefix(size, 6) # str_llama3

\* whether the legacy conversion permutes the query and key weights
PT_rope(size) == StrPrefix(size, 8) \notin llama3_variants

\* PT_wkv_step with the stride of llama3.1-405b for every llama3.1 size
PT_wkv_step_llama3_1(size) == IF StrPrefix(size, 8) # str_llama3_1 THEN 1 ELSE 2

PT_wkv_step(size) == IF size # llama3_1_405b THEN 1 ELSE 2

PT_attention_layer(vars_, sa, p, size, l) ==
  LET H == p.num_heads
      D == p.dims_per_head
      KV == p.num_kv_heads
      kvvars == Strided(vars_, PT_wkv_step(size))
      wq0 == transpose(np_concatenate(Gather(vars_, attn_key(l, "wq")), 0))
      wk0 == transpose(np_concatenate(Gather(kvvars, attn_key(l, "wk")), 0))
      wv0 == transpose(np_concatenate(Gather(kvvars, attn_key(l, "wv")), 0))
      wq1 == np_reshape(wq0, <<H * D, H, D>>)
      wk1 == np_reshape(wk0, <<H * D, KV, D>>)
      wv == np_reshape(wv0, <<H * D, KV, D>>)
      wq == IF PT_rope(size) THEN permute_to_match_maxtext_rope(wq1) ELSE wq1
      wk == IF PT_rope(size) THEN permute_to_match_maxtext_rope(wk1) ELSE wk1
      w_post == np_reshape(np_concatenate(Gather(vars_, attn_key(l, "wo")), 1), <<H * D, H, D>>)
      stack_shape == <<p.num_layers>>
      first == sa.query = None
      query == setitem(IF first THEN np_zeros(stack_shape \o wq.shape) ELSE sa.query, <<l>>, wq)
      key == setitem(IF first THEN np_zeros(stack_shape \o wk.shape) ELSE sa.key, <<l>>, wk)
      value == setitem(IF first THEN np_zeros(stack_shape \o wv.shape) ELSE sa.value, <<l>>, wv)
      out == setitem(IF first THEN np_zeros(stack_shape \o w_post.shape) ELSE sa.out, <<l>>, w_post)
  IN Done(<<wq0, wk0, wv0, wq1, wk1, wv, wq, wk, w_post, query, key, value, out>>,
          [query |-> query, key |-> key, value |-> value, out |-> out])

\* a bug: the out kernel reordered as the query, key and value kernels are
PT_attention_finish_out_as_query(sa, jw, p) ==
  LET q0 == np_transpose(sa.query, <<1, 0, 2, 3>>)
      key == np_transpose(sa.key, <<1, 0, 2, 3>>)
      value == np_transpose(sa.value, <<1, 0, 2, 3>>)
      out == np_transpose(sa.out, <<1, 0, 2, 3>>)
      query == divide_by_sqrt(q0, p.dims_per_head)
      SA == <<"decoder", "layers", "self_attention">>
  IN Done(<<q0, key, value, out, query>>,
          [sa |-> [query |-> query, key |-> key, value |-> value, out |-> out],
           jw |-> Put(Put(Put(Put(jw, SA \o <<"query", "kernel">>, query),
                              SA \o <<"key", "kernel">>, key),
                          SA \o <<"value", "kernel">>, value),
                      SA \o <<"out", "kernel">>, out)])

\* the transposes after the loop, the scaling of the query kernel and the
\* assignment to jax_weights["decoder"]["layers"]["self_attention"]
PT_attention_finish(sa, jw, p) ==
  LET q0 == np_transpose(sa.query, <<1, 0, 2, 3>>)
      key == np_transpose(sa.key, <<1, 0, 2, 3>>)
      value == np_transpose(sa.value, <<1, 0, 2, 3>>)
      out == np_transpose(sa.out, <<2, 0, 3, 1>>)
      query == divide_by_sqrt(q0, p.dims_per_head)
      SA == <<"decoder", "layers", "self_attention">>
  IN Done(<<q0, key, value, out, query>>,
          [sa |-> [query |-> query, key |-> key, value |-> value, out |-> out],
           jw |-> Put(Put(Put(Put(jw, SA \o <<"query", "kernel">>, query),
                              SA \o <<"key", "kernel">>, key),
                          SA \o <<"value", "kernel">>, value),
                      SA \o <<"out", "kernel">>, out)])

NoNorms == [pre |-> None, post |-> None, gate |-> None, wi_0 |-> None, wi_1 |-> None, wo |-> None]

PT_norm_layer(vars_, lw, p, l) ==
  LET pre_n == to_float16(MapperGet(vars_[1], norm_key(l, "attention_norm")))
      post_n == to_float16(MapperGet(vars_[1], norm_key(l, "ffn_norm")))
      stack_shape == <<p.num_layers>>
      first == lw.pre = None
      pre == setitem(IF first THEN np_zeros(stack_shape \o pre_n.shape) ELSE lw.pre, <<l>>, pre_n)
      post == setitem(IF first THEN np_zeros(stack_shape \o post_n.shape) ELSE lw.post, <<l>>, post_n)
  IN Done(<<pre_n, post_n, pre, post>>, [lw EXCEPT !.pre = pre, !.post = post])

PT_norm_finish(lw, jw) ==
  LET pre == np_transpose(lw.pre, <<1, 0>>)
      post == np_transpose(lw.post, <<1, 0>>)
  IN Done(<<pre, post>>,
          [lw |-> [lw EXCEPT !.pre = pre, !.post = post],
           jw |-> Put(Put(jw, <<"decoder", "layers", "pre_self_attention_layer_norm", "scale">>, pre),
                      <<"decoder", "layers", "post_self_attention_layer_norm", "scale">>, post)])

\* the dense feed-forward weights of one layer
PT_mlp_layer(vars_, lw, p, l) ==
  LET wi_0 == transpose(np_concatenate(Gather(vars_, ffn_key(l, "w1")), 0))
      wi_1 == transpose(np_concatenate(Gather(vars_, ffn_key(l, "w3")), 0))
      wo == transpose(np_concatenate(Gather(vars_, ffn_key(l, "w2")), 1))
      stack_shape == <<p.num_layers>>
      first == lw.wi_0 = None
      k0 == setitem(IF first THEN np_zeros(stack_shape \o wi_0.shape) ELSE lw.wi_0, <<l>>, wi_0)
      k1 == setitem(IF first THEN np_zeros(stack_shape \o wi_1.shape) ELSE lw.wi_1, <<l>>, wi_1)
      ko == setitem(IF first THEN np_zeros(stack_shape \o wo.shape) ELSE lw.wo, <<l>>, wo)
  IN Done(<<wi_0, wi_1, wo, k0, k1, ko>>, [lw EXCEPT !.wi_0 = k0, !.wi_1 = k1, !.wo = ko])

\* the weights of expert k of one layer
PT_expert(vars_, r, p, l, k) ==
  IF r.err # "" THEN r
  ELSE LET lw == r.val
           wi_0 == transpose(np_concatenate(Gather(vars_, expert_key(l, k, "w1")), 0))
           wi_1 == transpose(np_concatenate(Gather(vars_, expert_key(l, k, "w3")), 0))
           wo == transpose(np_concatenate(Gather(vars_, expert_key(l, k, "w2")), 1))
           stack_shape == <<p.num_experts, p.num_layers>>
           first == lw.wi_0 = None
           k0 == setitem(IF first THEN np_zeros(stack_shape \o wi_0.shape) ELSE lw.wi_0, <<k, l>>, wi_0)
           k1 == setitem(IF first THEN np_zeros(stack_shape \o wi_1.shape) ELSE lw.wi_1, <<k, l>>, wi_1)
           ko == setitem(IF first THEN np_zeros(stack_shape \o wo.shape) ELSE lw.wo, <<k, l>>, wo)
       IN Done(<<wi_0, wi_1, wo, k0, k1, ko>>, [lw EXCEPT !.wi_0 = k0, !.wi_1 = k1, !.wo = ko])

\* for k in range(num_experts), from expert k on
RECURSIVE PT_experts_from(_, _, _, _, _)
PT_experts_from(vars_, r, p, l, k) ==
  IF k >= p.num_experts THEN r
  ELSE PT_experts_from(vars_, PT_expert(vars_, r, p, l, k), p, l, k + 1)

\* the gate and the experts of one layer
PT_moe_layer(vars_, lw, p, l) ==
  LET gate == transpose(np_concatenate(Gather(vars_, ffn_key(l, "gate")), 0))
      stack_shape == <<p.num_layers>>
      kg == setitem(IF lw.gate = None THEN np_zeros(stack_shape \o gate.shape) ELSE lw.gate, <<l>>, gate)
  IN PT_experts_from(vars_, Done(<<gate, kg>>, [lw EXCEPT !.gate = kg]), p, l, 0)

PT_ffn_layer(vars_, lw, p, l) ==
  IF HasExperts(p) THEN PT_moe_layer(vars_, lw, p, l) ELSE PT_mlp_layer(vars_, lw, p, l)

\* PT_ffn_finish giving the expert kernels the reorder of the dense kernels
PT_ffn_finish_experts_reordered(lw, jw, p) ==
  LET MLP == <<"decoder", "layers", "mlp">>
      MOE == <<"decoder", "layers", "MoeBlock_0">>
  IN IF ~HasExperts(p)
       THEN LET wi_0 == np_transpose(lw.wi_0, <<1, 0, 2>>)
                wi_1 == np_transpose(lw.wi_1, <<1, 0, 2>>)
                wo == np_transpose(lw.wo, <<1, 0, 2>>)
            IN Done(<<wi_0, wi_1, wo>>,
                    [lw |-> [lw EXCEPT !.wi_0 = wi_0, !.wi_1 = wi_1, !.wo = wo],
                     jw |-> Put(Put(Put(jw, MLP \o <<"wi_0", "kernel">>, wi_0),
                                    MLP \o <<"wi_1", "kernel">>, wi_1),
                                MLP \o <<"wo", "kernel">>, wo)])
     ELSE LET gate == np_transpose(lw.gate, <<1, 0, 2>>)
              wi_0 == np_transpose(lw.wi_0, <<1, 0, 2, 3>>)
              wi_1 == np_transpose(lw.wi_1, <<1, 0, 2, 3>>)
              wo == np_transpose(lw.wo, <<1, 0, 2, 3>>)
          IN Done(<<gate, wi_0, wi_1, wo>>,
                  [lw |-> [lw EXCEPT !.gate = gate],
                   jw |-> Put(Put(Put(Put(jw, MOE \o <<"gate", "kernel">>, gate),
                                      MOE \o <<"wi_0">>, wi_0),
                                  MOE \o <<"wi_1">>, wi_1),
                              MOE \o <<"wo">>, wo)])

\* the transposes after the loop and the assignment to jax_weights
PT_ffn_finish(lw, jw, p) ==
  LET MLP == <<"decoder", "layers", "mlp">>
      MOE == <<"decoder", "layers", "MoeBlock_0">>
  IN IF ~HasExperts(p)
       THEN LET wi_0 == np_transpose(lw.wi_0, <<1, 0, 2>>)
                wi_1 == np_transpose(lw.wi_1, <<1, 0, 2>>)
                wo == np_transpose(lw.wo, <<1, 0, 2>>)
            IN Done(<<wi_0, wi_1, wo>>,
                    [lw |-> [lw EXCEPT !.wi_0 = wi_0, !.wi_1 = wi_1, !.wo = wo],
                     jw |-> Put(Put(Put(jw, MLP \o <<"wi_0", "kernel">>, wi_0),
                                    MLP \o <<"wi_1", "kernel">>, wi_1),
                                MLP \o <<"wo", "kernel">>, wo)])
     ELSE LET gate == np_transpose(lw.gate, <<1, 0, 2>>)
          IN Done(<<gate>>,
                  [lw |-> [lw EXCEPT !.gate = gate],
                   jw |-> Put(Put(Put(Put(jw, MOE \o <<"gate", "kernel">>, gate),
                                      MOE \o <<"wi_0">>, lw.wi_0),
                                  MOE \o <<"wi_1">>, lw.wi_1),
                              MOE \o <<"wo">>, lw.wo)])

(***************************************************************************)
(* _convert_huggingface_to_jax_weights, section by section.  chkpt_vars is *)
(* one dict here, from Meta names to tensors.                              *)
(***************************************************************************)
\* "layers" in key
HasLayers(key) == \E i \in DOMAIN key : key[i] = "layers"

\* what reading one key of a file raises ("": nothing)
HF_key_error(key) ==
  IF HasLayers(key) /\ (Len(key) < 3 \/ ~IsNumField(key[3]))
    THEN IF Len(key) < 3 THEN "IndexError" ELSE "ValueError"
  ELSE LET layer == IF HasLayers(key) THEN IntOfField(key[3]) ELSE 0
       IN IF key \in DOMAIN _hf_to_maxtext_mapping(layer, -1) THEN "" ELSE "KeyError"

HF_mapped_key(key) ==
  _hf_to_maxtext_mapping(IF HasLayers(key) THEN IntOfField(key[3]) ELSE 0, -1)[key]

\* The exceptions the loading loop can raise: the loop stops at the first key
\* that raises, and which key that is depends on the order of the keys in the
\* files.
HF_load_errors(files) ==
  {HF_key_error(k) : k \in UNION {DOMAIN files[s] : s \in DOMAIN files}} \ {""}

\* chkpt_vars when every key was read
HF_load(files) ==
  LET keys == UNION {DOMAIN files[s] : s \in DOMAIN files}
      fileOf(k) == Max({s \in DOMAIN files : k \in DOMAIN files[s]})
  IN [m \in {HF_mapped_key(k) : k \in keys} |->
        LET k == CHOOSE x \in keys : HF_mapped_key(x) = m
        IN files[fileOf(k)][k]]

HF_decoder_norm(cv, jw) ==
  LET scale == to_float16(DictGet(cv, <<"norm", "weight">>))
  IN Done(<<scale>>, Put(jw, <<"decoder", "decoder_norm", "scale">>, scale))

HF_logits_dense(cv, jw, p) ==
  LET kernel == slice_axis(transpose(to_float16(DictGet(cv, <<"output", "weight">>))),
                           1, 0, 1, p.vocab)
  IN Done(<<kernel>>, Put(jw, <<"decoder", "logits_dense", "kernel">>, kernel))

HF_token_embedding(cv, jw, p, size) ==
  LET t == to_float16(DictGet(cv, <<"tok_embeddings", "weight">>))
      embedding == IF StrPrefix(size, 6) = str_llama3 THEN t
                   ELSE slice_axis(t, 0, 0, 1, p.vocab)
  IN Done(<<embedding>>, Put(jw, <<"token_embedder", "embedding">>, embedding))

\* a bug: HF_rope permuting for the llama3.3 sizes too
HF_rope_llama3_variants(size) == StrPrefix(size, 8) \in llama3_variants

\* whether the HuggingFace conversion permutes the query and key weights
HF_rope(size) == StrPrefix(size, 8) = str_llama3_1

\* max_utils.permute_to_match_maxtext_rope
max_utils_permute_to_match_maxtext_rope(arr) ==
  IF arr.err # "" THEN arr
  ELSE LET last == Len(arr.shape) - 1
           evens == slice_axis(arr, last, 0, 2, arr.shape[last + 1])
           odds == slice_axis(arr, last, 1, 2, arr.shape[last + 1])
       IN np_concatenate(<<evens, odds>>, last)

HF_attention_layer(cv, sa, p, size, l) ==
  LET H == p.num_heads
      D == p.dims_per_head
      KV == p.num_kv_heads
      wq0 == transpose(to_float16(DictGet(cv, attn_key(l, "wq"))))
      wk0 == transpose(to_float16(DictGet(cv, attn_key(l, "wk"))))
      wv0 == transpose(to_float16(DictGet(cv, attn_key(l, "wv"))))
      wq1 == np_reshape(wq0, <<H * D, H, D>>)
      wk1 == np_reshape(wk0, <<H * D, KV, D>>)
      wv == np_reshape(wv0, <<H * D, KV, D>>)
      wq == IF HF_rope(size) THEN max_utils_permute_to_match_maxtext_rope(wq1) ELSE wq1
      wk == IF HF_rope(size) THEN max_utils_permute_to_match_maxtext_rope(wk1) ELSE wk1
      w_post == np_reshape(to_float16(DictGet(cv, attn_key(l, "wo"))), <<H * D, H, D>>)
      stack_shape == <<p.num_layers>>
      first == sa.query = None
      query == setitem(IF first THEN np_zeros(stack_shape \o wq.shape) ELSE sa.query, <<l>>, wq)
      key == setitem(IF first THEN np_zeros(stack_shape \o wk.shape) ELSE sa.key, <<l>>, wk)
      value == setitem(IF first THEN np_zeros(stack_shape \o wv.shape) ELSE sa.value, <<l>>, wv)
      out == setitem(IF first THEN np_zeros(stack_shape \o w_post.shape) ELSE sa.out, <<l>>, w_post)
  IN Done(<<wq0, wk0, wv0, wq1, wk1, wv, wq, wk, w_post, query, key, value, out>>,
          [query |-> query, key |-> key, value |-> value, out |-> out])

\* lines 546-564 are the statements of the legacy conversion
HF_attention_finish(sa, jw, p) == PT_attention_finish(sa, jw, p)

HF_norm_layer(cv, lw, p, l) ==
  LET pre_n == to_float16(DictGet(cv, norm_key(l, "attention_norm")))
      post_n == to_float16(DictGet(cv, norm_key(l, "ffn_norm")))
      stack_shape == <<p.num_layers>>
      first == lw.pre = None
      pre == setitem(IF first THEN np_zeros(stack_shape \o pre_n.shape) ELSE lw.pre, <<l>>, pre_n)
      post == setitem(IF first THEN np_zeros(stack_shape \o post_n.shape) ELSE lw.post, <<l>>, post_n)
  IN Done(<<pre_n, post_n, pre, post>>, [lw EXCEPT !.pre = pre, !.post = post])

\* lines 586-594 are the statements of the legacy conversion
HF_norm_finish(lw, jw) == PT_norm_finish(lw, jw)

HF_mlp_layer(cv, lw, p, l) ==
  LET wi_0 == transpose(to_float16(DictGet(cv, ffn_key(l, "w1"))))
      wi_1 == transpose(to_float16(DictGet(cv, ffn_key(l, "w3"))))
      wo == transpose(to_float16(DictGet(cv, ffn_key(l, "w2"))))
      stack_shape == <<p.num_layers>>
      first == lw.wi_0 = None
      k0 == setitem(IF first THEN np_zeros(stack_shape \o wi_0.shape) ELSE lw.wi_0, <<l>>, wi_0)
      k1 == setitem(IF first THEN np_zeros(stack_shape \o wi_1.shape) ELSE lw.wi_1, <<l>>, wi_1)
      ko == setitem(IF first THEN np_zeros(stack_shape \o wo.shape) ELSE lw.wo, <<l>>, wo)
  IN Done(<<wi_0, wi_1, wo, k0, k1, ko>>, [lw EXCEPT !.wi_0 = k0, !.wi_1 = k1, !.wo = ko])

HF_expert(cv, r, p, l, k) ==
  IF r.err # "" THEN r
  ELSE LET lw == r.val
           wi_0 == transpose(to_float16(DictGet(cv, expert_key(l, k, "w1"))))
           wi_1 == transpose(to_float16(DictGet(cv, expert_key(l, k, "w3"))))
           wo == transpose(to_float16(DictGet(cv, expert_key(l, k, "w2"))))
           stack_shape == <<p.num_experts, p.num_layers>>
           first == lw.wi_0 = None
           k0 == setitem(IF first THEN np_zeros(stack_shape \o wi_0.shape) ELSE lw.wi_0, <<k, l>>, wi_0)
           k1 == setitem(IF first THEN np_zeros(stack_shape \o wi_1.shape) ELSE lw.wi_1, <<k, l>>, wi_1)
           ko == setitem(IF first THEN np_zeros(stack_shape \o wo.shape) ELSE lw.wo, <<k, l>>, wo)
       IN Done(<<wi_0, wi_1, wo, k0, k1, ko>>, [lw EXCEPT !.wi_0 = k0, !.wi_1 = k1, !.wo = ko])

RECURSIVE HF_experts_from(_, _, _, _, _)
HF_experts_from(cv, r, p, l, k) ==
  IF k >= p.num_experts THEN r
  ELSE HF_experts_from(cv, HF_expert(cv, r, p, l, k), p, l, k + 1)

\* var[key] for var in chkpt_vars: iterating the dict yields its keys, which
\* are strings, and a string indexed by a string raises TypeError; over an
\* empty dict the list is empty
HF_gate_list(cv, key) ==
  IF DOMAIN cv = {} THEN <<>> ELSE <<ErrArr("TypeError")>>

HF_moe_layer(cv, lw, p, l) ==
  LET gate == transpose(np_concatenate(HF_gate_list(cv, ffn_key(l, "gate")), 0))
      stack_shape == <<p.num_layers>>
      kg == setitem(IF lw.gate = None THEN np_zeros(stack_shape \o gate.shape) ELSE lw.gate, <<l>>, gate)
  IN HF_experts_from(cv, Done(<<gate, kg>>, [lw EXCEPT !.gate = kg]), p, l, 0)

HF_ffn_layer(cv, lw, p, l) ==
  IF HasExperts(p) THEN HF_moe_layer(cv, lw, p, l) ELSE HF_mlp_layer(cv, lw, p, l)

\* lines 655-668 are the statements of the legacy conversion
HF_ffn_finish(lw, jw, p) == PT_ffn_finish(lw, jw, p)

(***************************************************************************)
(* convert_to_jax_weights as a process: pc is the section of the converter *)
(* about to run, "returned" once it returned jax_weights and "raised" once *)
(* an exception (named by err) left it.                                    *)
(***************************************************************************)
ModelSizes == DOMAIN MODEL_PARAMS_DICT

\* the checkpoints converted: sound ones in one to MaxShards files under
\* either naming, and single-file ones with one defect (under the naming of
\* the format converted); a directory without a checkpoint file is nshards = 0
Sources ==
  {[nshards |-> n, naming |-> nm, defect |-> "none"] : n \in 0 .. MaxShards, nm \in {"meta", "hf"}}
  \cup {[nshards |-> 1, naming |-> nm, defect |-> d] : nm \in {"meta", "hf"}, d \in Defects}

model_params == MODEL_PARAMS_DICT[model_size]

InitConv ==
  /\ model_size \in ModelSizes
  /\ huggingface_ckpt \in BOOLEAN
  /\ source \in Sources
  /\ source.defect # "none" => source.naming = (IF huggingface_ckpt THEN "hf" ELSE "meta")
  /\ chkpt_vars = <<>>
  /\ jax_weights = EmptyDict
  /\ self_attention = NoKernels4
  /\ layer_weight = NoNorms
  /\ layer_idx = 0
  /\ pc = "load"
  /\ err = ""
  /\ ShardIdle
  /\ MapperIdle
  /\ RopeIdle
  /\ LoraIdle
  /\ MainIdle

Raise(e) ==
  /\ pc' = "raised"
  /\ err' = e
  /\ UNCHANGED <<chkpt_vars, jax_weights, self_attention, layer_weight, layer_idx>>

\* lines 451-461 and 686-693: the files are read
Load ==
  /\ pc = "load"
  /\ IF huggingface_ckpt
       THEN LET files == SafetensorsFiles(model_size, source)
            IN IF HF_load_errors(files) # {}
                 THEN \E e \in HF_load_errors(files) : Raise(e)
               ELSE /\ chkpt_vars' = HF_load(files)
                    /\ pc' = "decoder_norm"
                    /\ UNCHANGED <<jax_weights, self_attention, layer_weight, layer_idx, err>>
     ELSE /\ chkpt_vars' = PthFiles(model_size, source)
          /\ pc' = "decoder_norm"
          /\ UNCHANGED <<jax_weights, self_attention, layer_weight, layer_idx, err>>
  /\ UNCHANGED <<model_size, huggingface_ckpt, source, varsShard, varsMapper, varsRope, varsLora, varsMain>>

\* a section that writes jax_weights: r is its result, next the next section
WriteSection(r, next) ==
  /\ IF r.err # "" THEN Raise(r.err)
     ELSE /\ jax_weights' = r.val
          /\ pc' = next
          /\ UNCHANGED <<chkpt_vars, self_attention, layer_weight, layer_idx, err>>
  /\ UNCHANGED <<model_size, huggingface_ckpt, source, varsShard, varsMapper, varsRope, varsLora, varsMain>>

DecoderNorm ==
  /\ pc = "decoder_norm"
  /\ WriteSection(IF huggingface_ckpt THEN HF_decoder_norm(chkpt_vars, jax_weights)
                  ELSE PT_decoder_norm(chkpt_vars, jax_weights),
                  "logits_dense")

LogitsDense ==
  /\ pc = "logits_dense"
  /\ WriteSection(IF huggingface_ckpt THEN HF_logits_dense(chkpt_vars, jax_weights, model_params)
                  ELSE PT_logits_dense(chkpt_vars, jax_weights, model_params),
                  "token_embedding")

TokenEmbedding ==
  /\ pc = "token_embedding"
  /\ WriteSection(IF huggingface_ckpt
                    THEN HF_token_embedding(chkpt_vars, jax_weights, model_params, model_size)
                  ELSE PT_token_embedding(chkpt_vars, jax_weights, model_params, model_size),
                  "attention")

\* LoopStep leaving the loop after its first iteration
LoopStep_once(loop, after) == pc' = after /\ layer_idx' = 0

\* where a loop goes after the iteration of layer_idx
LoopStep(loop, after) ==
  IF layer_idx + 1 < model_params.num_layers
    THEN pc' = loop /\ layer_idx' = layer_idx + 1
  ELSE pc' = after /\ layer_idx' = 0

\* one iteration of the loop of lines 517-544 and 752-790
AttentionLayer ==
  /\ pc = "attention"
  /\ LET r == IF huggingface_ckpt
                THEN HF_attention_layer(chkpt_vars, self_attention, model_params, model_size, layer_idx)
              ELSE PT_attention_layer(chkpt_vars, self_attention, model_params, model_size, layer_idx)
     IN IF r.err # "" THEN Raise(r.err)
        ELSE /\ self_attention' = r.val
             /\ LoopStep("attention", "attention_finish")
             /\ UNCHANGED <<chkpt_vars, jax_weights, layer_weight, err>>
  /\ UNCHANGED <<model_size, huggingface_ckpt, source, varsShard, varsMapper, varsRope, varsLora, varsMain>>

AttentionFinish ==
  /\ pc = "attention_finish"
  /\ LET r == IF huggingface_ckpt THEN HF_attention_finish(self_attention, jax_weights, model_params)
              ELSE PT_attention_finish(self_attention, jax_weights, model_params)
     IN IF r.err # "" THEN Raise(r.err)
        ELSE /\ self_attention' = r.val.sa
             /\ jax_weights' = r.val.jw
             /\ pc' = "norm"
             /\ UNCHANGED <<chkpt_vars, layer_weight, layer_idx, err>>
  /\ UNCHANGED <<model_size, huggingface_ckpt, source, varsShard, varsMapper, varsRope, varsLora, varsMain>>

\* one iteration of the loop of lines 572-584 and 810-822
NormLayer ==
  /\ pc = "norm"
  /\ LET r == IF huggingface_ckpt THEN HF_norm_layer(chkpt_vars, layer_weight, model_params, layer_idx)
              ELSE PT_norm_layer(chkpt_vars, layer_weight, model_params, layer_idx)
     IN IF r.err # "" THEN Raise(r.err)
        ELSE /\ layer_weight' = r.val
             /\ LoopStep("norm", "norm_finish")
             /\ UNCHANGED <<chkpt_vars, jax_weights, self_attention, err>>
  /\ UNCHANGED <<model_size, huggingface_ckpt, source, varsShard, varsMapper, varsRope, varsLora, varsMain>>

NormFinish ==
  /\ pc = "norm_finish"
  /\ LET r == IF huggingface_ckpt THEN HF_norm_finish(layer_weight, jax_weights)
              ELSE PT_norm_finish(layer_weight, jax_weights)
     IN IF r.err # "" THEN Raise(r.err)
        ELSE /\ layer_weight' = r.val.lw
             /\ jax_weights' = r.val.jw
             /\ pc' = "ffn"
             /\ UNCHANGED <<chkpt_vars, self_attention, layer_idx, err>>
  /\ UNCHANGED <<model_size, huggingface_ckpt, source, varsShard, varsMapper, varsRope, varsLora, varsMain>>

\* one iteration of the loop of lines 616-652 and 854-913
FfnLayer ==
  /\ pc = "ffn"
  /\ LET r == IF huggingface_ckpt THEN HF_ffn_layer(chkpt_vars, layer_weight, model_params, layer_idx)
              ELSE PT_ffn_layer(chkpt_vars, layer_weight, model_params, layer_idx)
     IN IF r.err # "" THEN Raise(r.err)
        ELSE /\ layer_weight' = r.val
             /\ LoopStep("ffn", "ffn_finish")
             /\ UNCHANGED <<chkpt_vars, jax_weights, self_attention, err>>
  /\ UNCHANGED <<model_size, huggingface_ckpt, source, varsShard, varsMapper, varsRope, varsLora, varsMain>>

\* lines 655-674 and 916-935: the last transposes, del chkpt_vars, return
FfnFinish ==
  /\ pc = "ffn_finish"
  /\ LET r == IF huggingface_ckpt THEN HF_ffn_finish(layer_weight, jax_weights, model_params)
              ELSE PT_ffn_finish(layer_weight, jax_weights, model_params)
     IN IF r.err # "" THEN Raise(r.err)
        ELSE /\ layer_weight' = r.val.lw
             /\ jax_weights' = r.val.jw
             /\ chkpt_vars' = <<>>
             /\ pc' = "returned"
             /\ UNCHANGED <<self_attention, layer_idx, err>>
  /\ UNCHANGED <<model_size, huggingface_ckpt, source, varsShard, varsMapper, varsRope, varsLora, varsMain>>

NextConv ==
  \/ Load
  \/ DecoderNorm
  \/ LogitsDense
  \/ TokenEmbedding
  \/ AttentionLayer
  \/ AttentionFinish
  \/ NormLayer
  \/ NormFinish
  \/ FfnLayer
  \/ FfnFinish

SpecConv == InitConv /\ [][NextConv]_vars

(***************************************************************************)
(* Claims about the sharding selector (SpecShard).                         *)
(***************************************************************************)
Placed == 1 .. Len(jax_weights_new)

\* C1: every placed leaf is sharded along axis 0 when shape[0] % n = 0, else
\* along axis 1 when there is a second axis and shape[1] % n = 0, else it is
\* replicated; no axis after the second is ever sharded; and the choice is the
\* same for equal shapes wherever they stand in the list of leaves.
C1_ShardingRule ==
  \A i \in Placed :
    LET shape == leaves[i]
        p == jax_weights_new[i]
        first == shape[1] % device_count = 0
        second == Len(shape) >= 2 /\ shape[2] % device_count = 0
    IN /\ p.shape = shape
       /\ p.sharding \in {s1, s2, s3}
       /\ (p.sharding = s1) <=> first
       /\ (p.sharding = s2) <=> (~first /\ second)
       /\ (p.sharding = s3) <=> (~first /\ ~second)
       /\ \A ax \in DOMAIN p.sharding : p.sharding[ax] # "None" => ax <= 2
       /\ \A j \in Placed : leaves[j] = shape => jax_weights_new[j] = p

\* a leaf of three axes whose third axis alone is divisible has been replicated,
\* after another leaf was placed before it
C1_Witness ==
  \E i \in Placed :
    /\ i > 1
    /\ Len(leaves[i]) = 3
    /\ leaves[i][3] % device_count = 0
    /\ leaves[i][1] % device_count # 0
    /\ jax_weights_new[i].sharding = s3

\* C2 as stated: a leaf of shape (15, 32) on 16 devices is replicated.
C2_Original ==
  \A i \in Placed :
    (leaves[i] = <<15, 32>> /\ device_count = 16) => jax_weights_new[i].sharding = s3

\* C2 amended: a leaf of shape (15, 32) on 16 devices is sharded along axis 1
\* (15 % 16 # 0 and 32 % 16 = 0).
C2_Amended ==
  \A i \in Placed :
    (leaves[i] = <<15, 32>> /\ device_count = 16) => jax_weights_new[i].sharding = s2

C2_Witness ==
  \E i \in Placed : leaves[i] = <<15, 32>> /\ device_count = 16

\* C3 as stated: a leaf of shape (32, 15) on 16 devices is sharded along axis 1.
C3_Original ==
  \A i \in Placed :
    (leaves[i] = <<32, 15>> /\ device_count = 16) => jax_weights_new[i].sharding = s2

\* C3 amended: a leaf of shape (32, 15) on 16 devices is sharded along axis 0
\* (32 % 16 = 0).
C3_Amended ==
  \A i \in Placed :
    (leaves[i] = <<32, 15>> /\ device_count = 16) => jax_weights_new[i].sharding = s1

C3_Witness ==
  \E i \in Placed : leaves[i] = <<32, 15>> /\ device_count = 16

(***************************************************************************)
(* Claims about the namespace adapter (SpecMapper).                        *)
(***************************************************************************)
\* the names the table gives as counterpart of key
Counterparts(key) == {p[2] : p \in {q \in HfPairsAll : q[1] = key}}

\* C4: a lookup returns the tensor stored under the literal key when there is
\* one (also when the mapped counterpart is stored too); otherwise the tensor
\* stored under the counterpart that the table gives for the key's layer and
\* expert index; otherwise it raises and returns nothing.  The collection is
\* left as it was.
C4_ResolutionOrder ==
  [][ LET k == lookup_key'
          r == lookup_result'
          cp == Counterparts(k) \cap DOMAIN collection
      IN /\ collection' = collection
         /\ IF k \in DOMAIN collection
              THEN r.err = "" /\ r.val = collection[k]
            ELSE IF cp # {}
              THEN r.err = "" /\ \E b \in cp : r.val = collection[b]
            ELSE r.err \in {"ValueError", "TypeError"} ]_vars

\* both names are stored and the lookup returned the tensor of the literal one
C4_Witness ==
  \E p \in HfPairsAll :
    /\ {p[1], p[2]} \subseteq DOMAIN collection
    /\ lookup_key = p[1]
    /\ lookup_result = Returned(TensorAt(p[1]))

ExactlyOneStored(p) ==
  (p[1] \in DOMAIN collection) # (p[2] \in DOMAIN collection)

StoredOf(p) == IF p[1] \in DOMAIN collection THEN collection[p[1]] ELSE collection[p[2]]

\* C5 as stated: when only one name of a pair (a, b) is stored, looking up a
\* and looking up b both return the stored tensor.
C5_Original ==
  lookup_result # NoLookup =>
    \A p \in HfPairsAll :
      (lookup_key \in {p[1], p[2]} /\ ExactlyOneStored(p)) =>
        (lookup_result.err = "" /\ lookup_result.val = StoredOf(p))

\* C5 amended: when only one name of a pair (a, b) of _hf_mapping is stored,
\* looking up a returns the stored tensor; looking up b returns it when it is
\* stored under b, and raises ValueError when it is stored under a: the table
\* is applied in the direction a -> b only.
C5_Amended ==
  lookup_result # NoLookup =>
    \A p \in HfPairsAll :
      ExactlyOneStored(p) =>
        /\ lookup_key = p[1] => (lookup_result.err = "" /\ lookup_result.val = StoredOf(p))
        /\ (lookup_key = p[2] /\ p[2] \in DOMAIN collection) =>
              (lookup_result.err = "" /\ lookup_result.val = StoredOf(p))
        /\ (lookup_key = p[2] /\ p[1] \in DOMAIN collection) =>
              lookup_result.err = "ValueError"

\* only the counterpart of an expert weight is stored and the lookup by the
\* other name returned it
C5_Witness ==
  \E p \in HfPairsAll :
    /\ Len(NumFieldsOf(p[1])) = 2
    /\ DOMAIN collection = {p[2]}
    /\ lookup_key = p[1]
    /\ lookup_result = Returned(TensorAt(p[2]))

(***************************************************************************)
(* Claims about the conversion (SpecConv).                                 *)
(***************************************************************************)
Converting == pc # "idle"

\* the checkpoint holds every tensor of the configuration, each with the
\* shape the configuration implies, under the names its format uses
SoundSource ==
  /\ Converting
  /\ source.nshards >= 1
  /\ huggingface_ckpt => source.naming = "hf"
  /\ \A d \in SrcTensors(model_params) :
       /\ Present(d, model_params, source.defect)
       /\ SrcShape(d, model_params, source.defect) = ConfigShape(d.kind, model_params)

EmbDim == model_params.num_heads * model_params.dims_per_head

\* the layers whose attention weights the attention loop has stacked
StackedLayers ==
  IF self_attention.query = None THEN {}
  ELSE IF pc = "attention" THEN 0 .. (layer_idx - 1)
  ELSE 0 .. (model_params.num_layers - 1)

\* the position, on the head-dim axis of the source, of what the RoPE
\* permutation puts at position d: the even positions, then the odd ones
Deinterleaved(d, D) ==
  LET evens == (D + 1) \div 2
  IN IF d < evens THEN 2 * d ELSE 2 * (d - evens) + 1

\* the stacked kernel holds, for every stacked layer, the source tensor of
\* the layer transposed and split into heads, its head-dim axis permuted or not
HeadsLaid(kernel, kind, heads, permuted) ==
  LET D == model_params.dims_per_head
  IN \A l \in StackedLayers, m \in 0 .. (EmbDim - 1), h \in 0 .. (heads - 1), d \in 0 .. (D - 1) :
       LET el == At(kernel, <<l, m, h, d>>)
       IN /\ el.k = kind
          /\ el.l = l
          /\ el.i = (h * D + (IF permuted THEN Deinterleaved(d, D) ELSE d)) * EmbDim + m

\* the legacy conversion is in or just after its attention loop
LegacyAttention ==
  /\ Converting
  /\ ~huggingface_ckpt
  /\ SoundSource
  /\ pc \in {"attention", "attention_finish"}
  /\ StackedLayers # {}

Llama3Family == StrPrefix(model_size, 6) = str_llama3

RopeLaid(permuted) ==
  /\ HeadsLaid(self_attention.query, "wq", model_params.num_heads, permuted)
  /\ HeadsLaid(self_attention.key, "wk", model_params.num_kv_heads, permuted)
  /\ HeadsLaid(self_attention.value, "wv", model_params.num_kv_heads, FALSE)

\* C6 as stated: in the legacy conversion the query and key weights of a
\* layer are RoPE-permuted exactly for the sizes outside the llama3 family
\* (llama3-*, llama3.1-*, llama3.3-*), the value weights never.
C6_Original ==
  LegacyAttention => RopeLaid(~Llama3Family)

\* C6 amended: in the legacy conversion the query and key weights of a layer
\* are RoPE-permuted for every size except the llama3.1-* and llama3.3-*
\* sizes, so llama3-8b and llama3-70b are permuted too; the value weights
\* never are.
C6_Amended ==
  LegacyAttention =>
    RopeLaid(model_size \notin {llama3_1_8b, llama3_1_70b, llama3_1_405b, llama3_3_70b})

C6_Witness ==
  /\ LegacyAttention
  /\ model_size = llama3_8b
  /\ pc = "attention_finish"
  /\ RopeLaid(TRUE)
  /\ ~RopeLaid(FALSE)

\* the arrays of the target tree
TargetPaths == DOMAIN jax_weights

\* the source positions the target tree holds, tensor by tensor
TargetIds ==
  UNION {{[k |-> jax_weights[q].data[n].k, l |-> jax_weights[q].data[n].l,
           e |-> jax_weights[q].data[n].e, i |-> jax_weights[q].data[n].i] :
            n \in 1 .. Len(jax_weights[q].data)} : q \in TargetPaths}

SourceIds ==
  UNION {{[k |-> d.kind, l |-> d.l, e |-> d.e, i |-> n - 1] :
            n \in 1 .. Prod(ConfigShape(d.kind, model_params))} : d \in SrcTensors(model_params)}

RECURSIVE SumLen(_)
SumLen(S) ==
  IF S = {} THEN 0
  ELSE LET q == CHOOSE x \in S : TRUE
       IN Len(jax_weights[q].data) + SumLen(S \ {q})

\* every source value is in the target tree once, and nothing else is
EveryValueOnce ==
  /\ TargetIds = SourceIds
  /\ SumLen(TargetPaths) = Cardinality(SourceIds)

\* C7 as stated: for every size of the table and either format, converting a
\* checkpoint that holds every tensor with the shape the configuration
\* implies raises nothing and puts every source value in the target tree
\* exactly once, none dropped, duplicated or zero-filled.
C7_Original ==
  SoundSource => /\ pc # "raised"
                 /\ pc = "returned" => EveryValueOnce

\* the failing run: a sound HuggingFace checkpoint of a mixtral size
C7_Witness ==
  /\ SoundSource
  /\ huggingface_ckpt
  /\ model_size = mixtral_8x7b
  /\ pc = "raised"
  /\ err = "KeyError"

\* the stacked arrays of the target tree, the kind of source tensor each is
\* made of, and whether its first axis is the expert
StackedKind ==
  LET L == <<"decoder", "layers">>
  IN DictOf(<<
       << L \o <<"self_attention", "query", "kernel">>, "wq" >>,
       << L \o <<"self_attention", "key", "kernel">>, "wk" >>,
       << L \o <<"self_attention", "value", "kernel">>, "wv" >>,
       << L \o <<"self_attention", "out", "kernel">>, "wo" >>,
       << L \o <<"pre_self_attention_layer_norm", "scale">>, "attention_norm" >>,
       << L \o <<"post_self_attention_layer_norm", "scale">>, "ffn_norm" >>,
       << L \o <<"mlp", "wi_0", "kernel">>, "w1" >>,
       << L \o <<"mlp", "wi_1", "kernel">>, "w3" >>,
       << L \o <<"mlp", "wo", "kernel">>, "w2" >>,
       << L \o <<"MoeBlock_0", "gate", "kernel">>, "gate" >>,
       << L \o <<"MoeBlock_0", "wi_0">>, "w1" >>,
       << L \o <<"MoeBlock_0", "wi_1">>, "w3" >>,
       << L \o <<"MoeBlock_0", "wo">>, "w2" >>
     >>)

ExpertPaths ==
  {<<"decoder", "layers", "MoeBlock_0", w>> : w \in {"wi_0", "wi_1", "wo"}}

\* the stacked arrays the configuration has
StackedPaths ==
  {q \in DOMAIN StackedKind :
     IF HasExperts(model_params) THEN q[3] # "mlp" ELSE q[3] # "MoeBlock_0"}

\* every element of the stacked array at path q comes from the source tensor
\* of the layer (and expert) of the slot it is in; in the returned tree the
\* layer is the second axis, and the expert of an expert array the first
SlotsFilled(q) ==
  LET a == jax_weights[q]
  IN /\ a.shape[2] = model_params.num_layers
     /\ q \in ExpertPaths => a.shape[1] = model_params.num_experts
     /\ \A n \in 1 .. Len(a.data) :
          LET m == Unravel(n - 1, a.shape)
              el == a.data[n]
          IN /\ el # ZERO
             /\ el.k = StackedKind[q]
             /\ el.l = m[2]
             /\ el.e = IF q \in ExpertPaths THEN m[1] ELSE -1

\* C8: after a conversion returns, every layer slot of every layer-stacked
\* array and every (expert, layer) slot of every expert array holds the
\* transformed source tensor of that layer (and expert): none is left zero
\* and none holds another layer's or expert's data.
C8_SlotsOverwritten ==
  pc = "returned" =>
    /\ StackedPaths \subseteq TargetPaths
    /\ \A q \in StackedPaths : SlotsFilled(q)

C8_Witness ==
  /\ pc = "returned"
  /\ HasExperts(model_params)
  /\ source.nshards = MaxShards
  /\ \A q \in StackedPaths : SlotsFilled(q)

MoeReturned == pc = "returned" /\ HasExperts(model_params) /\ SoundSource

\* the layer index of every element of array a is its coordinate on axis ax
LayerOnAxis(a, ax) ==
  \A n \in 1 .. Len(a.data) : a.data[n].l = Unravel(n - 1, a.shape)[ax]

\* C9 as stated: the expert kernels wi_0, wi_1, wo are stacked (expert,
\* layer) and then reordered as the dense kernels are, so that in the
\* returned tree the layer is no longer the second axis.
C9_Original ==
  MoeReturned =>
    \A q \in ExpertPaths :
      \E ax \in (1 .. Len(jax_weights[q].shape)) \ {2} : LayerOnAxis(jax_weights[q], ax)

\* the expert array at path q is [expert, layer, rows, cols], and its
\* (expert, layer) slot is the source tensor of that expert and layer
\* transposed: source position [c, r] at [e, l, r, c]
ExpertKernelLaid(q) ==
  LET a == jax_weights[q]
      srcshape == ConfigShape(StackedKind[q], model_params)
  IN /\ a.shape = <<model_params.num_experts, model_params.num_layers, srcshape[2], srcshape[1]>>
     /\ \A e \in 0 .. (a.shape[1] - 1), l \in 0 .. (a.shape[2] - 1),
           r \in 0 .. (a.shape[3] - 1), c \in 0 .. (a.shape[4] - 1) :
          LET el == At(a, <<e, l, r, c>>)
          IN el.k = StackedKind[q] /\ el.e = e /\ el.l = l /\ el.i = c * srcshape[2] + r

\* the gate kernel is [emb, layer, expert], the layer-stacked transposed gate
\* reordered as a dense kernel is
GateKernelLaid ==
  LET a == jax_weights[<<"decoder", "layers", "MoeBlock_0", "gate", "kernel">>]
  IN /\ a.shape = <<EmbDim, model_params.num_layers, model_params.num_experts>>
     /\ \A m \in 0 .. (a.shape[1] - 1), l \in 0 .. (a.shape[2] - 1), x \in 0 .. (a.shape[3] - 1) :
          LET el == At(a, <<m, l, x>>)
          IN el.k = "gate" /\ el.l = l /\ el.i = x * EmbDim + m

\* C9 amended: the expert kernels wi_0, wi_1, wo are stacked (expert, layer)
\* and written to the tree as stacked, without the reorder of the dense
\* kernels: the value of expert e and layer l is at [e, l, ...]; only the
\* gate kernel is layer-stacked and reordered as a dense kernel is.
C9_Amended ==
  MoeReturned => /\ \A q \in ExpertPaths : ExpertKernelLaid(q)
                 /\ GateKernelLaid

C9_Witness ==
  /\ MoeReturned
  /\ source.nshards = MaxShards
  /\ model_size = mixtral_8x22b
  /\ \A q \in ExpertPaths : ExpertKernelLaid(q) /\ LayerOnAxis(jax_weights[q], 2)

\* the tensors of the checkpoint whose shape is not the one the
\* configuration implies
Mismatched ==
  {d \in SrcTensors(model_params) :
     /\ Present(d, model_params, source.defect)
     /\ SrcShape(d, model_params, source.defect) # ConfigShape(d.kind, model_params)}

MiscountedAttention ==
  {d \in Mismatched :
     /\ d.kind \in {"wq", "wk", "wv", "wo"}
     /\ Prod(SrcShape(d, model_params, source.defect)) # Prod(ConfigShape(d.kind, model_params))}

PaddedVocab == Converting /\ source.defect = "vocab_padded"

Embedding == jax_weights[<<"token_embedder", "embedding">>]
LogitsKernel == jax_weights[<<"decoder", "logits_dense", "kernel">>]

\* array a is the first `rows` rows of the source embedding, (rows, emb)
EmbeddingRows(a, rows) ==
  /\ a.shape = <<rows, EmbDim>>
  /\ \A r \in 0 .. (rows - 1), c \in 0 .. (EmbDim - 1) :
       LET el == At(a, <<r, c>>)
       IN el.k = "tok_embeddings" /\ el.i = r * EmbDim + c

\* C12: for every llama3-family size (llama3-*, llama3.1-*, llama3.3-*) the
\* embedding is stored whole, with every row the checkpoint has; for every
\* other size it is cut to its first vocab rows; for every size the output
\* projection is transposed to (hidden, vocab-or-more) and cut to vocab
\* columns.  Both conversions.
C12_Truncation ==
  /\ (Converting /\ source.nshards >= 1 /\ <<"token_embedder", "embedding">> \in DOMAIN jax_weights
        /\ source.defect \in {"none", "vocab_padded"}) =>
       EmbeddingRows(Embedding,
                     IF Llama3Family
                       THEN SrcShape(Desc("tok_embeddings", -1, -1), model_params, source.defect)[1]
                     ELSE model_params.vocab)
  /\ (Converting /\ source.nshards >= 1 /\ <<"decoder", "logits_dense", "kernel">> \in DOMAIN jax_weights
        /\ source.defect \in {"none", "vocab_padded"}) =>
       /\ LogitsKernel.shape = <<EmbDim, model_params.vocab>>
       /\ \A m \in 0 .. (EmbDim - 1), v \in 0 .. (model_params.vocab - 1) :
            LET el == At(LogitsKernel, <<m, v>>)
            IN el.k = "output" /\ el.i = v * EmbDim + m

C12_Witness ==
  /\ PaddedVocab
  /\ pc = "returned"
  /\ model_size = llama3_70b
  /\ Embedding.shape[1] = model_params.vocab + 1
  /\ LogitsKernel.shape[2] = model_params.vocab

\* the files the elements of layer l of a stacked attention kernel (layer
\* first) were loaded from
FilesOfLayer(kernel, l) ==
  {kernel.data[n].s : n \in {x \in 1 .. Len(kernel.data) : Unravel(x - 1, kernel.shape)[1] = l}}

\* the fragments of the files follow each other in ascending order of the
\* file index along the axis they were joined on, which the reshape turns
\* into the head axis (the third of the stacked kernel) and the head-dim axis:
\* no head holds a fragment of a later file than the next head does
AscendingFiles(kernel, l) ==
  LET per_head  == kernel.shape[4]
      per_row   == kernel.shape[3] * per_head
      per_layer == kernel.shape[2] * per_row
      files(h) ==
        {kernel.data[l * per_layer + m * per_row + h * per_head + d + 1].s :
           m \in 0 .. (kernel.shape[2] - 1), d \in 0 .. (per_head - 1)}
  IN \A h \in 0 .. (kernel.shape[3] - 2) : \A f \in files(h), g \in files(h + 1) : f <= g

AllFiles == 0 .. (source.nshards - 1)
EverySecondFile == {f \in AllFiles : f % 2 = 0}

RopeVals == {0, 1}
RopeLeading == {<<>>, <<2>>}

\* the arrays passed in: any values, the last axis of length 1 .. 2 * MaxHalf;
\* an element is its value v and its flat position i in the argument
RopeArrays ==
  UNION {{Arr(lead \o <<n>>, [x \in 1 .. Prod(lead \o <<n>>) |-> [v |-> f[x], i |-> x - 1]]) :
            f \in [1 .. Prod(lead \o <<n>>) -> RopeVals]} :
         lead \in RopeLeading, n \in 1 .. (2 * MaxHalf)}

InitRope ==
  /\ rope_arr \in RopeArrays
  /\ rope_out = <<>>
  /\ ShardIdle
  /\ MapperIdle
  /\ ConvIdle
  /\ LoraIdle
  /\ MainIdle

Permute ==
  /\ rope_out = <<>>
  /\ rope_out' = permute_to_match_maxtext_rope(rope_arr)
  /\ UNCHANGED <<rope_arr, varsShard, varsMapper, varsConv, varsLora, varsMain>>

NextRope == Permute

SpecRope == InitRope /\ [][NextRope]_vars

RopeCalled == rope_arr # <<>> /\ rope_out # <<>>
RopeLast == rope_arr.shape[Len(rope_arr.shape)]
\* the indices of the axes before the last
RopeLeadIdxs ==
  {SubSeq(Unravel(n - 1, rope_arr.shape), 1, Len(rope_arr.shape) - 1) :
     n \in 1 .. Len(rope_arr.data)}

\* C19: for an argument whose last axis has even length 2k, i.e. interleaves
\* E = (e0 .. e(k-1)) at the even and O = (o0 .. o(k-1)) at the odd positions,
\* the result has the argument's shape, holds E followed by O on the last
\* axis at every index of the other axes, and holds every element of the
\* argument exactly once.
C19_Deinterleave ==
  (RopeCalled /\ RopeLast % 2 = 0) =>
    LET k == RopeLast \div 2
    IN /\ rope_out.err = ""
       /\ rope_out.shape = rope_arr.shape
       /\ \A m \in RopeLeadIdxs : \A j \in 0 .. (k - 1) :
            /\ At(rope_out, m \o <<j>>) = At(rope_arr, m \o <<2 * j>>)
            /\ At(rope_out, m \o <<k + j>>) = At(rope_arr, m \o <<2 * j + 1>>)
       /\ \A x \in 1 .. Len(rope_arr.data) :
            Cardinality({y \in 1 .. Len(rope_out.data) : rope_out.data[y].i = x - 1}) = 1

C19_Witness ==
  /\ RopeCalled
  /\ rope_arr.shape = <<2, 2 * MaxHalf>>
  /\ At(rope_arr, <<1, 1>>).v # At(rope_arr, <<1, 2>>).v
  /\ At(rope_out, <<1, 1>>) = At(rope_arr, <<1, 2>>)
  /\ At(rope_out, <<1, MaxHalf>>) = At(rope_arr, <<1, 1>>)

(***************************************************************************)
(* convert_lora_weights_to_jax_weights.  A module name of target_modules   *)
(* is the tuple of its characters, so that "q_proj" in target_module is    *)
(* the substring test Python makes.                                        *)
(***************************************************************************)
q_proj == <<"q", "_", "p", "r", "o", "j">>
k_proj == <<"k", "_", "p", "r", "o", "j">>
v_proj == <<"v", "_", "p", "r", "o", "j">>
o_proj == <<"o", "_", "p", "r", "o", "j">>
gate_proj == <<"g", "a", "t", "e", "_", "p", "r", "o", "j">>

\* sub in str
StrIn(sub, str) ==
  \E i \in 1 .. (Len(str) - Len(sub) + 1) : SubSeq(str, i, i + Len(sub) - 1) = sub

\* the weight name of the base model a module of the adapter belongs to
AttentionModules == {q_proj, k_proj, v_proj, o_proj}
WeightOf(module) ==
  CASE module = q_proj -> "wq" [] module = k_proj -> "wk"
    [] module = v_proj -> "wv" [] module = o_proj -> "wo"
ModuleString(module) ==
  CASE module = q_proj -> "q_proj" [] module = k_proj -> "k_proj"
    [] module = v_proj -> "v_proj" [] module = o_proj -> "o_proj"

lora_key(l, w, ab) == <<"layers", ToString(l), "attention", w, ab, "weights">>
peft_key(l, module, ab) ==
  <<"base_model", "model", "model", "layers", ToString(l), "self_attn", ModuleString(module), ab, "weight">>

\* the shape of a factor of an adapter of rank r trained on a model of
\* configuration p: lora_A is (r, in_features), lora_B is (out_features, r)
LoraShape(w, ab, p, r) ==
  LET emb == p.num_heads * p.dims_per_head
      kvd == p.num_kv_heads * p.dims_per_head
  IN CASE ab = "lora_A" -> <<r, emb>>
       [] ab = "lora_B" /\ w \in {"wq", "wo"} -> <<emb, r>>
       [] ab = "lora_B" /\ w \in {"wk", "wv"} -> <<kvd, r>>

LoraTensor(w, ab, l, p, r) ==
  LET shape == LoraShape(w, ab, p, r)
  IN Arr(shape, [n \in 1 .. Prod(shape) |-> Elem(<<w, ab>>, l, -1, n - 1)])

\* the attention modules target_modules names, in the order of the list
RECURSIVE TrainedModules(_)
TrainedModules(target_modules) ==
  IF target_modules = <<>> THEN {}
  ELSE (IF Head(target_modules) \in AttentionModules THEN {Head(target_modules)} ELSE {})
       \cup TrainedModules(Tail(target_modules))

\* what torch.load(lora_config["lora_model_path"]) returns: the two factors
\* of every trained attention module of every layer, under the names the
\* conversion asks for ("maxtext") or under those of a PEFT adapter ("peft");
\* with the defect "missing_tensor" the lora_B factors of the last layer are
\* absent
AdapterFile(config, p) ==
  LET items == {x \in (0 .. (p.num_layers - 1)) \X TrainedModules(config.target_modules)
                        \X {"lora_A", "lora_B"} :
                  ~(config.defect = "missing_tensor" /\ x[1] = p.num_layers - 1 /\ x[3] = "lora_B")}
      key(x) == IF config.naming = "maxtext" THEN lora_key(x[1], WeightOf(x[2]), x[3])
                ELSE peft_key(x[1], x[2], x[3])
  IN [k \in {key(x) : x \in items} |->
        LET x == CHOOSE y \in items : key(y) = k
        IN LoraTensor(WeightOf(x[2]), x[3], x[1], p, config.r)]

NoFactors == ("lora_a.kernel" :> None) @@ ("lora_b.kernel" :> None)
NoFactors4 == [query |-> NoFactors, key |-> NoFactors, value |-> NoFactors, out |-> NoFactors]

\* the tree as it is created: every leaf None
NoneTree ==
  DictOf(<<
    << <<"decoder", "layers", "mlp", "wi_0", "lora_a.kernel">>, None >>,
    << <<"decoder", "layers", "mlp", "wi_0", "lora_b.kernel">>, None >>,
    << <<"decoder", "layers", "mlp", "wi_1", "lora_a.kernel">>, None >>,
    << <<"decoder", "layers", "mlp", "wi_1", "lora_b.kernel">>, None >>,
    << <<"decoder", "layers", "mlp", "wo", "lora_a.kernel">>, None >>,
    << <<"decoder", "layers", "mlp", "wo", "lora_b.kernel">>, None >>,
    << <<"decoder", "layers", "pre_self_attention_layer_norm", "scale">>, None >>,
    << <<"decoder", "layers", "post_self_attention_layer_norm", "scale">>, None >>,
    << <<"decoder", "decoder_norm", "scale">>, None >>,
    << <<"decoder", "logits_dense", "kernel">>, None >>,
    << <<"token_embedder", "embedding">>, None >>
  >>)

\* F(e), e computed once
Then(e, F(_)) == CHOOSE y \in {F(x) : x \in {e}} : TRUE

\* the stacking both initialize_self_attention_lora_kernels and the o_proj
\* branch end with
StackFactors(sal, module_name, stack_shape, l, lora_A, lora_B) ==
  LET cur == sal[module_name]
      a0 == IF cur["lora_a.kernel"] = None THEN np_zeros(stack_shape \o lora_A.shape)
            ELSE cur["lora_a.kernel"]
      b0 == IF cur["lora_a.kernel"] = None THEN np_zeros(stack_shape \o lora_B.shape)
            ELSE cur["lora_b.kernel"]
      a1 == setitem(a0, <<l>>, lora_A)
      b1 == setitem(b0, <<l>>, lora_B)
  IN Done(<<lora_A, lora_B, a1, b1>>,
          [sal EXCEPT ![module_name] = ("lora_a.kernel" :> a1) @@ ("lora_b.kernel" :> b1)])

\* a bug: the factors of every target module are stacked as the key factors
initialize_self_attention_lora_kernels_as_key(sal, coll, w, stack_shape, module_name, l, shape_b) ==
  LET Stack(lora_A) ==
        LET StackB(lora_B) == StackFactors(sal, "key", stack_shape, l, lora_A, lora_B)
        IN Then(np_reshape(transpose(to_float16(MapperGet(coll, lora_key(l, w, "lora_B")))), shape_b),
                StackB)
  IN Then(transpose(to_float16(MapperGet(coll, lora_key(l, w, "lora_A")))), Stack)

\* initialize_self_attention_lora_kernels, as it is called: key_prefix is
\* layers.<l>.attention.<w>, reshape_a is False and reshape_b is True
initialize_self_attention_lora_kernels(sal, coll, w, stack_shape, module_name, l, shape_b) ==
  LET Stack(lora_A) ==
        LET StackB(lora_B) == StackFactors(sal, module_name, stack_shape, l, lora_A, lora_B)
        IN Then(np_reshape(transpose(to_float16(MapperGet(coll, lora_key(l, w, "lora_B")))), shape_b),
                StackB)
  IN Then(transpose(to_float16(MapperGet(coll, lora_key(l, w, "lora_A")))), Stack)

\* a bug: the o_proj branch transposing both factors as the helper does
initialize_out_transposed(sal, coll, stack_shape, l, shape_a) ==
  LET Stack(lora_A_o) ==
        LET StackB(lora_B_o) == StackFactors(sal, "out", stack_shape, l, lora_A_o, lora_B_o)
        IN Then(transpose(to_float16(MapperGet(coll, lora_key(l, "wo", "lora_B")))), StackB)
  IN Then(np_reshape(transpose(to_float16(MapperGet(coll, lora_key(l, "wo", "lora_A")))), shape_a), Stack)

\* the o_proj branch: no transpose, lora_A_o reshaped
initialize_out(sal, coll, stack_shape, l, shape_a) ==
  LET Stack(lora_A_o) ==
        LET StackB(lora_B_o) == StackFactors(sal, "out", stack_shape, l, lora_A_o, lora_B_o)
        IN Then(to_float16(MapperGet(coll, lora_key(l, "wo", "lora_B"))), StackB)
  IN Then(np_reshape(to_float16(MapperGet(coll, lora_key(l, "wo", "lora_A"))), shape_a), Stack)

\* the body of `for target_module in lora_target_modules` for one module
LoraTargetModule(r0, coll, target_module, p, lora_rank, l) ==
  LET stack_shape == <<p.num_layers>>
      shape == <<lora_rank, p.num_heads, p.dims_per_head>>
      q(r) == IF r.err = "" /\ StrIn(q_proj, target_module)
                THEN initialize_self_attention_lora_kernels(r.val, coll, "wq", stack_shape, "query", l, shape)
              ELSE r
      k(r) == IF r.err = "" /\ StrIn(k_proj, target_module)
                THEN initialize_self_attention_lora_kernels(r.val, coll, "wk", stack_shape, "key", l, shape)
              ELSE r
      v(r) == IF r.err = "" /\ StrIn(v_proj, target_module)
                THEN initialize_self_attention_lora_kernels(r.val, coll, "wv", stack_shape, "value", l, shape)
              ELSE r
      o(r) == IF r.err = "" /\ StrIn(o_proj, target_module)
                THEN initialize_out(r.val, coll, stack_shape, l, shape)
              ELSE r
  IN Then(Then(Then(Then(r0, q), k), v), o)

\* the loop over lora_target_modules for layer l
RECURSIVE LoraLayerOver(_, _, _, _, _, _)
LoraLayerOver(r0, coll, target_modules, p, lora_rank, l) ==
  IF target_modules = <<>> THEN r0
  ELSE LET Rest(r) == LoraLayerOver(r, coll, Tail(target_modules), p, lora_rank, l)
       IN Then(LoraTargetModule(r0, coll, Head(target_modules), p, lora_rank, l), Rest)

\* the transposes after the loop and the assignment to the tree
LoraTransposed(pair, axes_a, axes_b) ==
  IF pair["lora_a.kernel"] = None THEN pair
  ELSE ("lora_a.kernel" :> np_transpose(pair["lora_a.kernel"], axes_a))
       @@ ("lora_b.kernel" :> np_transpose(pair["lora_b.kernel"], axes_b))

LoraFinished(sal) ==
  [query |-> LoraTransposed(sal.query, <<1, 0, 2>>, <<1, 0, 2, 3>>),
   key |-> LoraTransposed(sal.key, <<1, 0, 2>>, <<1, 0, 2, 3>>),
   value |-> LoraTransposed(sal.value, <<1, 0, 2>>, <<1, 0, 2, 3>>),
   out |-> LoraTransposed(sal.out, <<2, 0, 3, 1>>, <<1, 0, 2>>)]

Projections == {"query", "key", "value", "out"}
FactorNames == {"lora_a.kernel", "lora_b.kernel"}
lora_path(proj, f) == <<"decoder", "layers", "self_attention", proj, f>>

\* jax_weights_lora["decoder"]["layers"]["self_attention"] = self_attention_lora
LoraTree(jwl, sal) ==
  [x \in DOMAIN jwl \cup {lora_path(proj, f) : proj \in Projections, f \in FactorNames} |->
     IF \E proj \in Projections, f \in FactorNames : x = lora_path(proj, f)
       THEN sal[x[4]][x[5]]
     ELSE jwl[x]]

(***************************************************************************)
(* Specification SpecLora: one call of convert_lora_weights_to_jax_weights.*)
(***************************************************************************)
LoraRanks == {1, 2}

TargetModuleLists ==
  {<<>>, <<q_proj>>, <<k_proj>>, <<v_proj>>, <<o_proj>>, <<gate_proj>>,
   <<q_proj, v_proj>>, <<v_proj, q_proj>>, <<q_proj, q_proj>>, <<k_proj, o_proj>>,
   <<q_proj, gate_proj>>, <<q_proj, k_proj, v_proj, o_proj>>,
   <<gate_proj, o_proj, v_proj, k_proj, q_proj>>}

\* the adapters converted: adapter_config.json's target_modules and r, and
\* what adapter_model.bin holds
LoraConfigs ==
  {[target_modules |-> t, r |-> r, naming |-> "maxtext", defect |-> d] :
     t \in TargetModuleLists, r \in LoraRanks, d \in {"none", "missing_tensor"}}
  \cup {[target_modules |-> t, r |-> r, naming |-> "peft", defect |-> "none"] :
          t \in TargetModuleLists, r \in LoraRanks}

InitLoraCall ==
  /\ lora_chkpt_vars = <<>>
  /\ self_attention_lora = <<>>
  /\ jax_weights_lora = EmptyDict
  /\ lora_layer_idx = 0
  /\ lora_pc = "load"
  /\ lora_err = ""

InitLora ==
  /\ model_size \in ModelSizes
  /\ lora_config \in LoraConfigs
  /\ InitLoraCall
  /\ huggingface_ckpt = FALSE
  /\ source = <<>>
  /\ chkpt_vars = <<>>
  /\ jax_weights = EmptyDict
  /\ self_attention = <<>>
  /\ layer_weight = <<>>
  /\ layer_idx = 0
  /\ pc = "idle"
  /\ err = ""
  /\ ShardIdle
  /\ MapperIdle
  /\ RopeIdle
  /\ MainIdle

LoraRaise(e) ==
  /\ lora_pc' = "raised"
  /\ lora_err' = e
  /\ UNCHANGED <<lora_chkpt_vars, self_attention_lora, jax_weights_lora, lora_layer_idx>>

\* lines 294-342: the adapter is loaded and the trees are created
LoraLoad ==
  /\ lora_pc = "load"
  /\ lora_chkpt_vars' = AdapterFile(lora_config, model_params)
  /\ jax_weights_lora' = NoneTree
  /\ self_attention_lora' = NoFactors4
  /\ lora_pc' = IF model_params.num_layers > 0 THEN "layers" ELSE "finish"
  /\ UNCHANGED <<lora_layer_idx, lora_err>>
  /\ UNCHANGED <<lora_config, varsShard, varsMapper, varsConv, varsRope, varsMain>>

\* lines 348-399: one iteration of the loop over the layers
LoraLayer ==
  /\ lora_pc = "layers"
  /\ \E r \in {LoraLayerOver(Returned(self_attention_lora), lora_chkpt_vars,
                               lora_config.target_modules, model_params, lora_config.r,
                               lora_layer_idx)} :
        IF r.err # "" THEN LoraRaise(r.err)
        ELSE /\ self_attention_lora' = r.val
             /\ lora_layer_idx' = lora_layer_idx + 1
             /\ lora_pc' = IF lora_layer_idx + 1 < model_params.num_layers THEN "layers" ELSE "finish"
             /\ UNCHANGED <<lora_chkpt_vars, jax_weights_lora, lora_err>>
  /\ UNCHANGED <<lora_config, varsShard, varsMapper, varsConv, varsRope, varsMain>>

\* lines 401-438: the final transposes, the assignment and the return
LoraFinish ==
  /\ lora_pc = "finish"
  /\ \E sal \in {LoraFinished(self_attention_lora)} :
       /\ self_attention_lora' = sal
       /\ jax_weights_lora' = LoraTree(jax_weights_lora, sal)
  /\ lora_chkpt_vars' = <<>>
  /\ lora_pc' = "returned"
  /\ UNCHANGED <<lora_layer_idx, lora_err>>
  /\ UNCHANGED <<lora_config, varsShard, varsMapper, varsConv, varsRope, varsMain>>

NextLora == LoraLoad \/ LoraLayer \/ LoraFinish

SpecLora == InitLora /\ [][NextLora]_vars

\* the leaves of a tree: a None is no leaf
Leaves(tree) == {x \in DOMAIN tree : tree[x] # None}

ModuleOf(proj) ==
  CASE proj = "query" -> q_proj [] proj = "key" -> k_proj
    [] proj = "value" -> v_proj [] proj = "out" -> o_proj

\* the projection's module is in the target_modules list
Targeted(proj) ==
  \E i \in 1 .. Len(lora_config.target_modules) : lora_config.target_modules[i] = ModuleOf(proj)

LoraCalled == lora_config # <<>> /\ lora_pc # "idle"

\* a factor made of the adapter's values for the projection, none of them a
\* zero of the initial fill
FactorOf(a, proj, ab) ==
  /\ a # None
  /\ a.err = ""
  /\ Len(a.data) > 0
  /\ \A n \in 1 .. Len(a.data) : a.data[n].k = <<WeightOf(ModuleOf(proj)), ab>>

\* C14: when the LoRA conversion returns, the tree holds a factor pair
\* (lora_a, lora_b) for exactly the projections among query/key/value/out
\* whose module is in target_modules; every other projection has both
\* factors None (never an array of zeros) at every point of the conversion,
\* and so has every leaf outside self_attention: the leaves of the tree are
\* the factor pairs of the targeted projections.
C14_TargetedOnly ==
  /\ (LoraCalled /\ lora_pc \in {"layers", "finish", "returned", "raised"}) =>
       \A proj \in Projections : ~Targeted(proj) => self_attention_lora[proj] = NoFactors
  /\ (LoraCalled /\ lora_pc = "returned") =>
       /\ \A proj \in Projections :
            IF Targeted(proj)
              THEN /\ FactorOf(jax_weights_lora[lora_path(proj, "lora_a.kernel")], proj, "lora_A")
                   /\ FactorOf(jax_weights_lora[lora_path(proj, "lora_b.kernel")], proj, "lora_B")
            ELSE /\ jax_weights_lora[lora_path(proj, "lora_a.kernel")] = None
                 /\ jax_weights_lora[lora_path(proj, "lora_b.kernel")] = None
       /\ Leaves(jax_weights_lora) =
            {lora_path(proj, f) : proj \in {x \in Projections : Targeted(x)}, f \in FactorNames}

C14_Witness ==
  /\ LoraCalled
  /\ lora_pc = "returned"
  /\ lora_config.target_modules = <<q_proj>>
  /\ Leaves(jax_weights_lora) = {lora_path("query", f) : f \in FactorNames}
  /\ jax_weights_lora[lora_path("key", "lora_a.kernel")] = None

\* the shape of the base kernel of a projection (lines 765-797): query
\* (emb, layers, heads, head_dim), key and value (emb, layers, kv_heads,
\* head_dim), out (heads, layers, head_dim, emb)
BaseKernelShape(proj, p) ==
  LET emb == p.num_heads * p.dims_per_head
  IN CASE proj = "query" -> <<emb, p.num_layers, p.num_heads, p.dims_per_head>>
       [] proj \in {"key", "value"} -> <<emb, p.num_layers, p.num_kv_heads, p.dims_per_head>>
       [] proj = "out" -> <<p.num_heads, p.num_layers, p.dims_per_head, emb>>

\* the shape of lora_a contracted with lora_b over the rank axis, the layer
\* axis kept: for query/key/value lora_a is (emb, layers, rank) and lora_b
\* (rank, layers, heads, head_dim); for out lora_a is (heads, layers,
\* head_dim, rank) and lora_b (emb, layers, rank).  <<>> when the two do not
\* contract.
Contracted(proj, a, b) ==
  IF proj = "out"
    THEN IF Len(a.shape) = 4 /\ Len(b.shape) = 3 /\ a.shape[4] = b.shape[3] /\ a.shape[2] = b.shape[2]
           THEN <<a.shape[1], a.shape[2], a.shape[3], b.shape[1]>>
         ELSE <<>>
  ELSE IF Len(a.shape) = 3 /\ Len(b.shape) = 4 /\ a.shape[3] = b.shape[1] /\ a.shape[2] = b.shape[2]
         THEN <<a.shape[1], a.shape[2], b.shape[3], b.shape[4]>>
       ELSE <<>>

SoundAdapter == LoraCalled /\ lora_config.naming = "maxtext" /\ lora_config.defect = "none"

Composes(proj) ==
  LET a == jax_weights_lora[lora_path(proj, "lora_a.kernel")]
      b == jax_weights_lora[lora_path(proj, "lora_b.kernel")]
  IN /\ a # None /\ b # None
     /\ Contracted(proj, a, b) = BaseKernelShape(proj, model_params)

\* C20: for every model size of the configuration table and every adapted
\* projection, the conversion of a sound adapter returns factors whose
\* contraction over the rank axis has the axis order and the shape of the
\* base kernel of the projection: a head axis of num_kv_heads for key and
\* value, of num_heads for query and out.
C20_Original ==
  SoundAdapter =>
    /\ lora_pc # "raised"
    /\ lora_pc = "returned" => \A proj \in Projections : Targeted(proj) => Composes(proj)

\* the conversion of a sound key adapter of llama2-70b (num_kv_heads differs
\* from num_heads) raises
C20_Witness ==
  /\ SoundAdapter
  /\ model_size = llama2_70b
  /\ lora_config.target_modules = <<k_proj>>
  /\ lora_pc = "raised"
  /\ lora_err = "ValueError"

(***************************************************************************)
(* __main__ and save_weights_to_checkpoint.  A path is the tuple of its    *)
(* components; the trace records what the run did, in order.               *)
(***************************************************************************)
Ev(ev, unit, path) == [ev |-> ev, unit |-> unit, path |-> path]

\* tree.flatten(jax_weights): the leaves (here their shapes) in the order of
\* the flattening, which is a fixed order of the paths; a None is no leaf
RECURSIVE FlattenOver(_, _)
FlattenOver(tree, paths) ==
  IF paths = {} THEN <<>>
  ELSE LET x == CHOOSE y \in paths : TRUE
       IN <<tree[x].shape>> \o FlattenOver(tree, paths \ {x})

tree_flatten(tree) == FlattenOver(tree, Leaves(tree))

\* list_folders_pathlib: the names of the sub-directories, in the order the
\* directory yields its entries; [] when the directory does not exist
list_folders_pathlib(directory) ==
  IF ~directory.is_dir THEN <<>>
  ELSE LET dirs == SelectSeq(directory.entries, LAMBDA item : item.kind # "file")
       IN [i \in 1 .. Len(dirs) |-> dirs[i].name]

\* the entry of the adapters directory of that name
EntryOf(name) ==
  LET i == CHOOSE j \in 1 .. Len(args.lora_dir.entries) : args.lora_dir.entries[j].name = name
  IN args.lora_dir.entries[i]

\* json.load of adapter_config.json and what adapter_model.bin holds beside it
ConfigOf(entry) ==
  [target_modules |-> <<q_proj>>, r |-> 1, naming |-> "maxtext",
   defect |-> IF entry.kind = "missing_tensor" THEN "missing_tensor" ELSE "none"]

\* checkpointing.create_orbax_checkpoint_manager with enable_checkpointing =
\* True: a manager for the directory, nothing written yet
create_orbax_checkpoint_manager(path) == [path |-> path, issued |-> FALSE, durable |-> FALSE]

\* the first lines of save_weights_to_checkpoint, up to the flattening
SaveBegin(path, tree) ==
  /\ device_count' = SIMULATED_CPU_DEVICES_COUNT
  /\ leaves' = tree_flatten(tree)
  /\ jax_weights_flat' = tree_flatten(tree)
  /\ jax_weights_new' = <<>>
  /\ checkpoint_manager' = <<>>
  /\ main_pc' = "placing"

(***************************************************************************)
(* Specification SpecMain: one run of the script.                          *)
(***************************************************************************)
unknown_size == <<"g", "p", "t", "2">>

\* the values of --maxtext-model-path and --lora-input-adapters-path; the
\* option left out (None) or empty is <<>>
maxtext_model_path == <<"out">>
GcsAdapters == <<"gs://", "bucket", "adapters">>
LocalAdapters == <<"", "tmp", "adapters">>

EntryKinds == {"file", "no_config", "null_config", "sound", "missing_tensor"}

\* the adapters directories: none, or up to MaxAdapters entries of any kind,
\* named by their position
NoDir == [is_dir |-> FALSE, entries |-> <<>>]
LoraDirs ==
  {NoDir} \cup
  {[is_dir |-> TRUE, entries |-> [i \in 1 .. Len(ks) |-> [name |-> ToString(i), kind |-> ks[i]]]] :
     ks \in SeqsUpTo(EntryKinds, MaxAdapters)}

SoundLegacy == [nshards |-> 1, naming |-> "meta", defect |-> "none"]

\* the runs: every base checkpoint without adapters or with adapters in a
\* bucket; the sound base checkpoint with every adapters directory
MainInputs ==
  {[size |-> b[1], hf |-> b[2], src |-> b[3], lora_input_adapters_path |-> lp, lora_dir |-> NoDir] :
     b \in {<<llama2_7b, FALSE, SoundLegacy>>,
            <<llama2_7b, FALSE, [nshards |-> 1, naming |-> "meta", defect |-> "missing_wq"]>>,
            <<mixtral_8x7b, TRUE, [nshards |-> 1, naming |-> "hf", defect |-> "none"]>>,
            <<unknown_size, FALSE, SoundLegacy>>},
     lp \in {<<>>, GcsAdapters, LocalAdapters}}
  \cup {[size |-> llama2_7b, hf |-> FALSE, src |-> SoundLegacy,
         lora_input_adapters_path |-> LocalAdapters, lora_dir |-> d] : d \in LoraDirs}

InitMain ==
  /\ \E in \in MainInputs :
       /\ model_size = in.size
       /\ huggingface_ckpt = in.hf
       /\ source = in.src
       /\ args = [maxtext_model_path |-> maxtext_model_path,
                  lora_input_adapters_path |-> in.lora_input_adapters_path,
                  lora_dir |-> in.lora_dir]
  /\ lora_ids = <<>>
  /\ lora_id = "base"
  /\ checkpoint_manager = <<>>
  /\ main_pc = "start"
  /\ main_err = ""
  /\ trace = <<>>
  /\ chkpt_vars = <<>>
  /\ jax_weights = EmptyDict
  /\ self_attention = <<>>
  /\ layer_weight = <<>>
  /\ layer_idx = 0
  /\ pc = "idle"
  /\ err = ""
  /\ ShardIdle
  /\ MapperIdle
  /\ RopeIdle
  /\ LoraIdle

base_weights_path ==
  IF args.lora_input_adapters_path # <<>> THEN args.maxtext_model_path \o <<"base">>
  ELSE args.maxtext_model_path

MainRaise(e) ==
  /\ main_pc' = "raised"
  /\ main_err' = e

\* a bug: the model size is not checked
CheckSize_unchecked ==
  /\ main_pc = "start"
  /\ main_pc' = "convert"
  /\ UNCHANGED <<args, lora_ids, lora_id, checkpoint_manager, main_err, trace>>
  /\ UNCHANGED <<varsShard, varsMapper, varsConv, varsRope, varsLora>>

\* lines 1061-1066: the model size is checked
CheckSize ==
  /\ main_pc = "start"
  /\ IF model_size \notin DOMAIN MODEL_PARAMS_DICT THEN MainRaise("NotImplementedError")
     ELSE main_pc' = "convert" /\ UNCHANGED main_err
  /\ UNCHANGED <<args, lora_ids, lora_id, checkpoint_manager, trace>>
  /\ UNCHANGED <<varsShard, varsMapper, varsConv, varsRope, varsLora>>

\* line 1072: convert_to_jax_weights is called
CallConvert ==
  /\ main_pc = "convert"
  /\ main_pc' = "converting"
  /\ trace' = Append(trace, Ev("convert_called", "base", <<>>))
  /\ chkpt_vars' = <<>>
  /\ jax_weights' = EmptyDict
  /\ self_attention' = NoKernels4
  /\ layer_weight' = NoNorms
  /\ layer_idx' = 0
  /\ pc' = "load"
  /\ err' = ""
  /\ UNCHANGED <<model_size, huggingface_ckpt, source>>
  /\ UNCHANGED <<args, lora_ids, lora_id, checkpoint_manager, main_err>>
  /\ UNCHANGED <<varsShard, varsMapper, varsRope, varsLora>>

\* lines 1070-1076: the conversion returned, save_weights_to_checkpoint is
\* called with its result
ConvertReturned ==
  /\ main_pc = "converting"
  /\ pc = "returned"
  /\ SaveBegin(args.maxtext_model_path, jax_weights)
  /\ trace' = trace \o <<Ev("converted", "base", <<>>),
                         Ev("save_called", "base", args.maxtext_model_path)>>
  /\ UNCHANGED <<args, lora_ids, lora_id, main_err>>
  /\ UNCHANGED <<varsMapper, varsConv, varsRope, varsLora>>

\* a bug: what a failed conversion had built is saved
ConvertRaised_saves ==
  /\ main_pc = "converting"
  /\ pc = "raised"
  /\ SaveBegin(args.maxtext_model_path, jax_weights)
  /\ trace' = trace \o <<Ev("converted", "base", <<>>),
                         Ev("save_called", "base", args.maxtext_model_path)>>
  /\ UNCHANGED <<args, lora_ids, lora_id, main_err>>
  /\ UNCHANGED <<varsMapper, varsConv, varsRope, varsLora>>

\* the conversion raised: nothing catches it
ConvertRaised ==
  /\ main_pc = "converting"
  /\ pc = "raised"
  /\ MainRaise(err)
  /\ UNCHANGED <<args, lora_ids, lora_id, checkpoint_manager, trace>>
  /\ UNCHANGED <<varsShard, varsMapper, varsConv, varsRope, varsLora>>

\* the path save_weights_to_checkpoint was called with
SavePath ==
  IF lora_id = "base" THEN args.maxtext_model_path
  ELSE args.maxtext_model_path \o <<"loras", lora_id>>

\* a bug: save_weights_to_checkpoint returns without waiting for the write
SaveCheckpoint_no_wait ==
  /\ main_pc = "placing"
  /\ jax_weights_flat = <<>>
  /\ checkpoint_manager' = [create_orbax_checkpoint_manager(SavePath) EXCEPT !.issued = TRUE]
  /\ \E saved \in BOOLEAN :
       trace' = trace \o <<Ev("write_issued", lora_id, SavePath)>>
                      \o (IF saved THEN <<Ev("log_saved_step", lora_id, SavePath)>> ELSE <<>>)
  /\ main_pc' = IF lora_id = "base" THEN "saved_base" ELSE "saved_lora"
  /\ UNCHANGED <<args, lora_ids, lora_id, main_err>>
  /\ UNCHANGED <<varsShard, varsMapper, varsConv, varsRope, varsLora>>

\* lines 997-1022: every leaf is placed; the manager is created and
\* save_checkpoint called, which issues the write and tells whether it saved
SaveCheckpoint ==
  /\ main_pc = "placing"
  /\ jax_weights_flat = <<>>
  /\ checkpoint_manager' = [create_orbax_checkpoint_manager(SavePath) EXCEPT !.issued = TRUE]
  /\ \E saved \in BOOLEAN :
       trace' = trace \o <<Ev("write_issued", lora_id, SavePath)>>
                      \o (IF saved THEN <<Ev("log_saved_step", lora_id, SavePath)>> ELSE <<>>)
  /\ main_pc' = "waiting"
  /\ UNCHANGED <<args, lora_ids, lora_id, main_err>>
  /\ UNCHANGED <<varsShard, varsMapper, varsConv, varsRope, varsLora>>

\* the checkpoint library finishes the write it was asked for
WriteCompletes ==
  /\ checkpoint_manager # <<>>
  /\ checkpoint_manager.issued
  /\ ~checkpoint_manager.durable
  /\ checkpoint_manager' = [checkpoint_manager EXCEPT !.durable = TRUE]
  /\ trace' = Append(trace, Ev("write_durable", lora_id, checkpoint_manager.path))
  /\ UNCHANGED <<args, lora_ids, lora_id, main_pc, main_err>>
  /\ UNCHANGED <<varsShard, varsMapper, varsConv, varsRope, varsLora>>

\* line 1024: checkpoint_manager.wait_until_finished() returns once the
\* write is finished, and save_weights_to_checkpoint returns
WaitUntilFinished ==
  /\ main_pc = "waiting"
  /\ checkpoint_manager.durable
  /\ trace' = Append(trace, Ev("wait_returned", lora_id, checkpoint_manager.path))
  /\ checkpoint_manager' = <<>>
  /\ main_pc' = IF lora_id = "base" THEN "saved_base" ELSE "saved_lora"
  /\ UNCHANGED <<args, lora_ids, lora_id, main_err>>
  /\ UNCHANGED <<varsShard, varsMapper, varsConv, varsRope, varsLora>>

\* lines 1077-1085: the message, then the adapters directory is listed
LogBaseSaved ==
  /\ main_pc = "saved_base"
  /\ IF args.lora_input_adapters_path = <<>>
       THEN /\ trace' = Append(trace, Ev("log_saved", "base", base_weights_path))
            /\ main_pc' = "done"
            /\ UNCHANGED <<lora_ids, main_err>>
     ELSE IF args.lora_input_adapters_path[1] = "gs://"
       THEN /\ trace' = trace \o <<Ev("log_saved", "base", base_weights_path),
                                   Ev("log_gcs_unsupported", "base", args.lora_input_adapters_path)>>
            /\ MainRaise("NotImplementedError")
            /\ UNCHANGED lora_ids
     ELSE /\ trace' = Append(trace, Ev("log_saved", "base", base_weights_path))
          /\ lora_ids' = list_folders_pathlib(args.lora_dir)
          /\ main_pc' = "loop"
          /\ UNCHANGED main_err
  /\ UNCHANGED <<args, lora_id, checkpoint_manager>>
  /\ UNCHANGED <<varsShard, varsMapper, varsConv, varsRope, varsLora>>

\* line 1102: convert_lora_weights_to_jax_weights is called
CallConvertLora(config) ==
  /\ lora_config' = config
  /\ lora_chkpt_vars' = <<>>
  /\ self_attention_lora' = <<>>
  /\ jax_weights_lora' = EmptyDict
  /\ lora_layer_idx' = 0
  /\ lora_pc' = "load"
  /\ lora_err' = ""

\* a bug: the missing adapter_config.json makes open() raise
IgnoreAdapter_raises(name) ==
  /\ MainRaise("FileNotFoundError")
  /\ UNCHANGED trace

\* lines 1091-1093: the adapter without adapter_config.json is passed over
IgnoreAdapter(name) ==
  /\ trace' = Append(trace, Ev("log_ignoring", name, <<>>))
  /\ main_pc' = "loop"
  /\ UNCHANGED main_err

\* lines 1087-1102: the next iteration of the loop over lora_ids, up to the
\* call of convert_lora_weights_to_jax_weights
LoopNext ==
  /\ main_pc = "loop"
  /\ IF lora_ids = <<>>
       THEN /\ main_pc' = "done"
            /\ UNCHANGED <<lora_ids, lora_id, trace, main_err, varsLora>>
     ELSE /\ lora_ids' = Tail(lora_ids)
          /\ lora_id' = Head(lora_ids)
          /\ LET entry == EntryOf(Head(lora_ids))
             IN IF entry.kind = "no_config"
                  THEN /\ IgnoreAdapter(Head(lora_ids))
                       /\ UNCHANGED varsLora
                ELSE IF entry.kind = "null_config"
                  THEN /\ main_pc' = "loop"
                       /\ UNCHANGED <<trace, main_err, varsLora>>
                ELSE /\ trace' = Append(trace, Ev("convert_called", Head(lora_ids), <<>>))
                     /\ CallConvertLora(ConfigOf(entry))
                     /\ main_pc' = "converting_lora"
                     /\ UNCHANGED main_err
  /\ UNCHANGED <<args, checkpoint_manager>>
  /\ UNCHANGED <<varsShard, varsMapper, varsConv, varsRope>>

\* lines 1102-1110: the LoRA conversion returned, save_weights_to_checkpoint
\* is called with its result
LoraReturned ==
  /\ main_pc = "converting_lora"
  /\ lora_pc = "returned"
  /\ SaveBegin(SavePath, jax_weights_lora)
  /\ trace' = trace \o <<Ev("converted", lora_id, <<>>), Ev("save_called", lora_id, SavePath)>>
  /\ UNCHANGED <<args, lora_ids, lora_id, main_err>>
  /\ UNCHANGED <<varsMapper, varsConv, varsRope, varsLora>>

\* a bug: the failure of an adapter's conversion is caught and the loop goes on
LoraRaised_skips ==
  /\ main_pc = "converting_lora"
  /\ lora_pc = "raised"
  /\ main_pc' = "loop"
  /\ UNCHANGED <<args, lora_ids, lora_id, checkpoint_manager, main_err, trace>>
  /\ UNCHANGED <<varsShard, varsMapper, varsConv, varsRope, varsLora>>

\* the LoRA conversion raised: nothing catches it
LoraRaised ==
  /\ main_pc = "converting_lora"
  /\ lora_pc = "raised"
  /\ MainRaise(lora_err)
  /\ UNCHANGED <<args, lora_ids, lora_id, checkpoint_manager, trace>>
  /\ UNCHANGED <<varsShard, varsMapper, varsConv, varsRope, varsLora>>

\* line 1111: the adapter's configuration is written beside its checkpoint
CopyConfig ==
  /\ main_pc = "saved_lora"
  /\ trace' = Append(trace, Ev("config_copied", lora_id, SavePath \o <<"adapter_config.json">>))
  /\ main_pc' = "loop"
  /\ UNCHANGED <<args, lora_ids, lora_id, checkpoint_manager, main_err>>
  /\ UNCHANGED <<varsShard, varsMapper, varsConv, varsRope, varsLora>>

NextMain ==
  \/ CheckSize \/ CallConvert \/ NextConv \/ ConvertReturned \/ ConvertRaised
  \/ PlaceLeaf \/ SaveCheckpoint \/ WriteCompletes \/ WaitUntilFinished
  \/ LogBaseSaved \/ LoopNext \/ NextLora \/ LoraReturned \/ LoraRaised \/ CopyConfig

SpecMain == InitMain /\ [][NextMain]_vars

MainCalled == main_pc # "idle"

\* the run did ev for unit
Has(ev, unit) == \E i \in 1 .. Len(trace) : trace[i].ev = ev /\ trace[i].unit = unit

\* every ev2 of a unit comes after an ev1 of the same unit
After(ev1, ev2) ==
  \A i \in 1 .. Len(trace) :
    trace[i].ev = ev2 => \E j \in 1 .. (i - 1) : trace[j].ev = ev1 /\ trace[j].unit = trace[i].unit

SaveEvents == {"save_called", "write_issued", "write_durable", "wait_returned"}

\* the unit did nothing that writes
NothingWritten(unit) ==
  \A i \in 1 .. Len(trace) :
    trace[i].unit = unit => trace[i].ev \notin SaveEvents \cup {"config_copied", "log_saved", "log_saved_step"}

Listed == list_folders_pathlib(args.lora_dir)
ListedNames == {Listed[i] : i \in 1 .. Len(Listed)}
KindOf(name) == EntryOf(name).kind

\* C11: save_weights_to_checkpoint is called for a unit (the base model or an
\* adapter), and its write issued, only after the unit's conversion has
\* returned, without an error; a conversion that lacks a tensor raises
\* ValueError in the iteration of the layer that needs it, its tree is never
\* handed to a write, and no write is issued for the unit.
C11_WriteAfterTransform ==
  MainCalled =>
    /\ After("converted", "save_called") /\ After("save_called", "write_issued")
    /\ main_pc \in {"placing", "waiting", "saved_base", "saved_lora"} =>
         IF lora_id = "base" THEN pc = "returned" /\ err = ""
         ELSE lora_pc = "returned" /\ lora_err = ""
    /\ Has("converted", "base") => pc = "returned"
    /\ pc = "raised" => NothingWritten("base") /\ main_pc \in {"converting", "raised"}
    /\ (lora_pc = "raised" /\ lora_id # "base") =>
         NothingWritten(lora_id) /\ main_pc \in {"converting_lora", "raised"}
    /\ source.defect = "missing_wq" =>
         /\ pc # "returned"
         /\ pc = "raised" =>
              /\ err = "ValueError"
              /\ layer_idx = model_params.num_layers - 1
              /\ <<"decoder", "layers", "self_attention", "query", "kernel">> \notin DOMAIN jax_weights
    /\ (lora_id # "base" /\ KindOf(lora_id) = "missing_tensor") =>
         /\ lora_pc # "returned"
         /\ lora_pc = "raised" =>
              /\ lora_err = "ValueError"
              /\ lora_layer_idx = model_params.num_layers - 1
              /\ jax_weights_lora = NoneTree

C11_Witness ==
  /\ MainCalled
  /\ main_pc = "raised"
  /\ lora_id # "base"
  /\ KindOf(lora_id) = "missing_tensor"
  /\ lora_err = "ValueError"
  /\ Has("wait_returned", "base")
  /\ Has("convert_called", lora_id)
  /\ NothingWritten(lora_id)

\* no adapter of the directory fails: each is a file, lacks its
\* configuration, has a null configuration or is sound
NoFailingAdapter ==
  \A i \in 1 .. Len(args.lora_dir.entries) : args.lora_dir.entries[i].kind # "missing_tensor"

\* the loop over a local adapters directory has been entered
InLoop ==
  /\ MainCalled
  /\ main_pc \in {"loop", "converting_lora", "placing", "waiting", "saved_lora", "done", "raised"}
  /\ Has("log_saved", "base")
  /\ args.lora_input_adapters_path = LocalAdapters

Skipped(name) ==
  /\ \A i \in 1 .. Len(trace) : trace[i].unit = name => trace[i].ev = "log_ignoring"
  /\ lora_id = name => main_pc \in {"loop", "done"} /\ main_err = "" /\ Has("log_ignoring", name)

Written(name) == Has("converted", name) /\ Has("wait_returned", name) /\ Has("config_copied", name)

\* C15: a sub-directory without adapter_config.json is passed over: nothing
\* is converted, written or copied for it, only the message is logged, and
\* the loop goes on to the next sub-directory; when no other adapter fails
\* the run never raises, and it ends with every adapter that has a
\* configuration converted, written and its configuration copied.
C15_SkipAndComplete ==
  InLoop =>
    /\ \A name \in ListedNames : KindOf(name) = "no_config" => Skipped(name)
    /\ NoFailingAdapter =>
         /\ main_pc # "raised"
         /\ main_err = ""
         /\ main_pc = "done" => \A name \in ListedNames : KindOf(name) = "sound" => Written(name)

C15_Witness ==
  /\ InLoop
  /\ main_pc = "done"
  /\ Len(Listed) = 2
  /\ KindOf(Listed[1]) = "no_config"
  /\ KindOf(Listed[2]) = "sound"
  /\ Skipped(Listed[1])
  /\ Written(Listed[2])

\* the names listed after name
ListedAfter(name) ==
  {Listed[j] : j \in {k \in 1 .. Len(Listed) : \E i \in 1 .. (k - 1) : Listed[i] = name}}
ListedBefore(name) ==
  {Listed[j] : j \in {k \in 1 .. Len(Listed) : \E i \in (k + 1) .. Len(Listed) : Listed[i] = name}}

\* C16 as stated: no failure of an adapter ends the run, and at the end of
\* the run every sound adapter discovered has been converted and written.
C16_Original ==
  InLoop =>
    /\ main_pc # "raised"
    /\ main_pc = "done" => \A name \in ListedNames : KindOf(name) = "sound" => Written(name)

\* C16 amended: only an adapter without adapter_config.json (or whose
\* configuration is null) is passed over with the loop going on.  A failure
\* of an adapter's conversion is not caught: it ends the run with that
\* exception, nothing is written for the adapter, the adapters discovered
\* before it stay written and none discovered after it is converted or
\* written.
C16_Amended ==
  InLoop =>
    /\ (lora_id # "base" /\ KindOf(lora_id) \in {"no_config", "null_config"}) =>
         main_pc \in {"loop", "done"} /\ NothingWritten(lora_id) /\ ~Has("convert_called", lora_id)
    /\ (lora_pc = "raised" /\ main_pc # "converting_lora") =>
         /\ main_pc = "raised"
         /\ main_err = lora_err
         /\ NothingWritten(lora_id)
         /\ \A name \in ListedAfter(lora_id) : \A i \in 1 .. Len(trace) : trace[i].unit # name
         /\ \A name \in ListedBefore(lora_id) : KindOf(name) = "sound" => Written(name)
    /\ main_pc = "raised" => lora_pc = "raised" /\ KindOf(lora_id) = "missing_tensor"

C16_Witness ==
  /\ InLoop
  /\ main_pc = "raised"
  /\ main_err = "ValueError"
  /\ Len(Listed) = 2
  /\ KindOf(Listed[1]) = "missing_tensor"
  /\ KindOf(Listed[2]) = "sound"
  /\ lora_id = Listed[1]
  /\ \A i \in 1 .. Len(trace) : trace[i].unit # Listed[2]

\* every write issued before position i of the trace was waited for before i
WaitedBefore(i) ==
  \A k \in 1 .. (i - 1) :
    trace[k].ev = "write_issued" =>
      \E j \in (k + 1) .. (i - 1) : trace[j].ev = "wait_returned" /\ trace[j].unit = trace[k].unit

\* what __main__ does once it takes a checkpoint for complete: a message in
\* msgs, the copy of the adapter's configuration, the start of the next unit
AfterWait(msgs) ==
  \A i \in 1 .. Len(trace) :
    /\ trace[i].ev \in msgs \cup {"config_copied"} =>
         \E j \in 1 .. (i - 1) : trace[j].ev = "wait_returned" /\ trace[j].unit = trace[i].unit
    /\ trace[i].ev \in {"convert_called", "log_ignoring", "log_gcs_unsupported"} => WaitedBefore(i)

C18_UnknownSizeFatal ==
  (MainCalled /\ model_size \notin DOMAIN MODEL_PARAMS_DICT) =>
    /\ main_pc \in {"start", "raised"}
    /\ main_pc = "raised" => main_err = "NotImplementedError"
    /\ pc = "idle" /\ chkpt_vars = <<>> /\ jax_weights = EmptyDict
    /\ lora_pc = "idle" /\ lora_chkpt_vars = <<>>
    /\ checkpoint_manager = <<>> /\ leaves = <<>>
    /\ trace = <<>>

C18_Witness ==
  /\ MainCalled
  /\ model_size = unknown_size
  /\ main_pc = "raised"
  /\ main_err = "NotImplementedError"
  /\ source = SoundLegacy
  /\ trace = <<>>

(***************************************************************************)
(* The load of the factors, read on the stacks of self_attention_lora      *)
(* before the final transposes.                                            *)
(***************************************************************************)
\* the layers whose factors the loop has stacked
LoraStackedLayers ==
  IF lora_pc = "layers" THEN 0 .. (lora_layer_idx - 1) ELSE 0 .. (model_params.num_layers - 1)

FileShape(w, ab) == LoraShape(w, ab, model_params, lora_config.r)

\* el is the element [x, y] of factor ab of weight w of layer l of the file
IsFileElem(el, w, ab, l, x, y) ==
  /\ el.k = <<w, ab>>
  /\ el.l = l
  /\ el.i = x * FileShape(w, ab)[2] + y

\* kernel[l] is the factor transposed: kernel[l, y, x] = M[x, y]
LoadedTransposed(kernel, w, ab, l) ==
  LET sh == FileShape(w, ab)
  IN /\ Tail(kernel.shape) = <<sh[2], sh[1]>>
     /\ \A x \in 0 .. (sh[1] - 1), y \in 0 .. (sh[2] - 1) :
          IsFileElem(At(kernel, <<l, y, x>>), w, ab, l, x, y)

\* kernel[l] is the factor as the file holds it: kernel[l, x, y] = M[x, y]
LoadedAsIs(kernel, w, ab, l) ==
  LET sh == FileShape(w, ab)
  IN /\ Tail(kernel.shape) = sh
     /\ \A x \in 0 .. (sh[1] - 1), y \in 0 .. (sh[2] - 1) :
          IsFileElem(At(kernel, <<l, x, y>>), w, ab, l, x, y)

HeadShape == <<lora_config.r, model_params.num_heads, model_params.dims_per_head>>

\* the flat position of [rk, h, d] in an array of shape HeadShape
HeadFlat(rk, h, d) == (rk * HeadShape[2] + h) * HeadShape[3] + d

\* kernel[l] is the factor reshaped to (rank, num_heads, head_dim), not
\* transposed: kernel[l, rk, h, d] is the element of M at that flat position
LoadedReshaped(kernel, w, ab, l) ==
  LET sh == FileShape(w, ab)
  IN /\ Tail(kernel.shape) = HeadShape
     /\ \A rk \in 0 .. (HeadShape[1] - 1), h \in 0 .. (HeadShape[2] - 1), d \in 0 .. (HeadShape[3] - 1) :
          IsFileElem(At(kernel, <<l, rk, h, d>>), w, ab, l,
                     HeadFlat(rk, h, d) \div sh[2], HeadFlat(rk, h, d) % sh[2])

\* kernel[l] is the factor transposed and then reshaped to (rank, num_heads,
\* head_dim): kernel[l, rk, h, d] is the element of the transpose of M (of
\* shape (sh[2], sh[1])) at that flat position
LoadedTransposedReshaped(kernel, w, ab, l) ==
  LET sh == FileShape(w, ab)
  IN /\ Tail(kernel.shape) = HeadShape
     /\ \A rk \in 0 .. (HeadShape[1] - 1), h \in 0 .. (HeadShape[2] - 1), d \in 0 .. (HeadShape[3] - 1) :
          IsFileElem(At(kernel, <<l, rk, h, d>>), w, ab, l,
                     HeadFlat(rk, h, d) % sh[1], HeadFlat(rk, h, d) \div sh[1])

LoraStacking == LoraCalled /\ lora_pc \in {"layers", "finish"}

\* query, key and value: A transposed, B transposed and reshaped
QkvLoaded(proj, l) ==
  /\ LoadedTransposed(self_attention_lora[proj]["lora_a.kernel"], WeightOf(ModuleOf(proj)), "lora_A", l)
  /\ LoadedTransposedReshaped(self_attention_lora[proj]["lora_b.kernel"], WeightOf(ModuleOf(proj)), "lora_B", l)

\* C21 as stated: for each of query, key, value and out in target_modules,
\* both factors of every converted layer are transposed on load; for query,
\* key and value B, and for out A, is then reshaped to (rank, num_heads,
\* head_dim), the other factor is only transposed.
C21_Original ==
  LoraStacking =>
    \A l \in LoraStackedLayers :
      /\ \A proj \in {"query", "key", "value"} : Targeted(proj) => QkvLoaded(proj, l)
      /\ Targeted("out") =>
           /\ LoadedTransposedReshaped(self_attention_lora.out["lora_a.kernel"], "wo", "lora_A", l)
           /\ LoadedTransposed(self_attention_lora.out["lora_b.kernel"], "wo", "lora_B", l)

\* C21 amended: for query, key and value both factors of every converted
\* layer are transposed on load and B is then reshaped to (rank, num_heads,
\* head_dim); for out neither factor is transposed: A is reshaped to (rank,
\* num_heads, head_dim) as the file holds it and B is stacked as the file
\* holds it.  The reshape of B of key and value raises ValueError when
\* num_kv_heads differs from num_heads, and a sound adapter raises in no
\* other case.
C21_Amended ==
  /\ LoraStacking =>
       \A l \in LoraStackedLayers :
         /\ \A proj \in {"query", "key", "value"} : Targeted(proj) => QkvLoaded(proj, l)
         /\ Targeted("out") =>
              /\ LoadedReshaped(self_attention_lora.out["lora_a.kernel"], "wo", "lora_A", l)
              /\ LoadedAsIs(self_attention_lora.out["lora_b.kernel"], "wo", "lora_B", l)
  /\ SoundAdapter =>
       LET kv_differs == /\ model_params.num_kv_heads # model_params.num_heads
                         /\ (Targeted("key") \/ Targeted("value"))
       IN /\ lora_pc = "raised" => (kv_differs /\ lora_err = "ValueError")
          /\ kv_differs => (lora_pc \in {"load", "layers", "raised"} /\ lora_layer_idx = 0)

\* an adapter of rank 2 of all four projections, every layer stacked: the
\* out factors are as the file holds them, A reshaped, and are not the
\* transposed ones
C21_Witness ==
  /\ SoundAdapter
  /\ lora_pc = "finish"
  /\ model_size = llama2_7b
  /\ lora_config.r = 2
  /\ lora_config.target_modules = <<q_proj, k_proj, v_proj, o_proj>>
  /\ QkvLoaded("key", 0)
  /\ LoadedReshaped(self_attention_lora.out["lora_a.kernel"], "wo", "lora_A", 0)
  /\ LoadedAsIs(self_attention_lora.out["lora_b.kernel"], "wo", "lora_B", 0)
  /\ ~LoadedTransposedReshaped(self_attention_lora.out["lora_a.kernel"], "wo", "lora_A", 0)
  /\ ~LoadedTransposed(self_attention_lora.out["lora_b.kernel"], "wo", "lora_B", 0)

(***************************************************************************)
(* Further claims about the conversion (SpecConv).                         *)
(***************************************************************************)
OutKernelPath == <<"decoder", "layers", "self_attention", "out", "kernel">>
OutKernel == jax_weights[OutKernelPath]

\* the conversion of a sound checkpoint has written the out kernel
OutWritten == SoundSource /\ OutKernelPath \in DOMAIN jax_weights

\* C22: the converted attention output-projection kernel has the axes
\* (heads, layer, head_dim, embedding): the element at [h, l, d, e] is the
\* element [e, h * head_dim + d] of the output-projection weight of layer l
\* of the source, whole (the fragments of the files joined along the second
\* axis).  In both conversions, once the kernel is in the tree.
C22_OutAxes ==
  OutWritten =>
    LET H == model_params.num_heads
        D == model_params.dims_per_head
    IN /\ OutKernel.shape = <<H, model_params.num_layers, D, EmbDim>>
       /\ \A h \in 0 .. (H - 1), l \in 0 .. (model_params.num_layers - 1),
             d \in 0 .. (D - 1), e \in 0 .. (EmbDim - 1) :
            LET el == At(OutKernel, <<h, l, d, e>>)
            IN /\ el.k = "wo"
               /\ el.l = l
               /\ el.i = e * (H * D) + h * D + d

\* a legacy conversion from MaxShards files has returned: the element at
\* [1, 1, 0, 0] is [0, head_dim] of the weight of layer 1, and comes from
\* the last file
C22_Witness ==
  /\ OutWritten
  /\ ~huggingface_ckpt
  /\ pc = "returned"
  /\ source.nshards = MaxShards
  /\ At(OutKernel, <<1, 1, 0, 0>>).i = model_params.dims_per_head
  /\ At(OutKernel, <<1, 1, 0, 0>>).l = 1
  /\ At(OutKernel, <<NumHeads - 1, 0, HeadDim - 1, 0>>).s = MaxShards - 1

\* x is the element y of a file, cast or not
SameElem(x, y) == x.k = y.k /\ x.l = y.l /\ x.e = y.e /\ x.i = y.i /\ x.s = y.s

\* the fragments of tensor `key` in the files loaded, in the order of the files
FragmentsOf(key) == [s \in 1 .. Len(chkpt_vars) |-> MapperGet(chkpt_vars[s], key)]

\* an array of `rows` rows and `cols` columns, whose element [r, c] is
\* get(r, c), is the fragments of `key` joined along axis ax (1: the rows,
\* the vocabulary; 2: the columns, the hidden axis), the rows after the
\* first `rows` cut off
JoinedOn(get(_, _), rows, cols, key, ax) ==
  LET frags == FragmentsOf(key)
      off(s) == AxisSum(SubSeq(frags, 1, s - 1), ax)
  IN /\ \A s \in DOMAIN frags : frags[s].err = ""
     /\ IF ax = 1
          THEN /\ rows <= AxisSum(frags, 1)
               /\ \A s \in DOMAIN frags : frags[s].shape[2] = cols
        ELSE /\ cols = AxisSum(frags, 2)
             /\ \A s \in DOMAIN frags : rows <= frags[s].shape[1]
     /\ \A s \in DOMAIN frags :
          \A r \in 0 .. (frags[s].shape[1] - 1), c \in 0 .. (frags[s].shape[2] - 1) :
            LET rr == IF ax = 1 THEN r + off(s) ELSE r
                cc == IF ax = 1 THEN c ELSE c + off(s)
            IN rr < rows => SameElem(get(rr, cc), At(frags[s], <<r, c>>))

EmbeddingAt(r, c) == At(Embedding, <<r, c>>)
\* the output projection is transposed after the join
LogitsAt(r, c) == At(LogitsKernel, <<c, r>>)

EmbeddingJoinedOn(ax) ==
  JoinedOn(EmbeddingAt, Embedding.shape[1], Embedding.shape[2], <<"tok_embeddings", "weight">>, ax)

LogitsJoinedOn(ax) ==
  JoinedOn(LogitsAt, LogitsKernel.shape[2], LogitsKernel.shape[1], <<"output", "weight">>, ax)

\* the legacy conversion has written the array at path q and still holds the files
LegacyWrote(q) ==
  /\ Converting
  /\ ~huggingface_ckpt
  /\ chkpt_vars # <<>>
  /\ q \in DOMAIN jax_weights

\* C23 as stated: in the legacy conversion the fragments of the embedding
\* and of the output projection are joined along the vocabulary axis, for
\* every model size, before the result is cut to the vocabulary size.
C23_Original ==
  /\ LegacyWrote(<<"token_embedder", "embedding">>) => EmbeddingJoinedOn(1)
  /\ LegacyWrote(<<"decoder", "logits_dense", "kernel">>) => LogitsJoinedOn(1)

\* C23 amended: the fragments of the output projection are joined along the
\* vocabulary axis for every model size; those of the embedding are joined
\* along the vocabulary axis for the llama3 family (llama3-*, llama3.1-*,
\* llama3.3-*) only, and along the hidden axis for every other size; the cut
\* to the vocabulary size, where there is one, comes after the join.
C23_Amended ==
  /\ LegacyWrote(<<"token_embedder", "embedding">>) =>
       EmbeddingJoinedOn(IF Llama3Family THEN 1 ELSE 2)
  /\ LegacyWrote(<<"decoder", "logits_dense", "kernel">>) => LogitsJoinedOn(1)

\* llama2-7b from MaxShards files: the embedding is the fragments side by
\* side on the hidden axis, its last column from the last file, and is not
\* their join along the vocabulary axis
C23_Witness ==
  /\ LegacyWrote(<<"token_embedder", "embedding">>)
  /\ model_size = llama2_7b
  /\ source.nshards = MaxShards
  /\ EmbeddingJoinedOn(2)
  /\ ~EmbeddingJoinedOn(1)
  /\ LogitsJoinedOn(1)
  /\ At(Embedding, <<0, EmbDim - 1>>).s = MaxShards - 1
  /\ At(Embedding, <<0, 0>>).s = 0

(***************************************************************************)
(* The two name-mapping tables against each other.                         *)
(***************************************************************************)
\* the indices the tables are built with for the key looked up: its first
\* two numeric fields, -1 where it has none
LookupLayerIdx ==
  IF Len(NumFieldsOf(lookup_key)) >= 1 THEN NumFieldsOf(lookup_key)[1] ELSE -1
LookupExpertIdx ==
  IF Len(NumFieldsOf(lookup_key)) >= 2 THEN NumFieldsOf(lookup_key)[2] ELSE -1

Injective(f) == \A x, y \in DOMAIN f : f[x] = f[y] => x = y

\* every pair a -> b of f has the pair b -> a in g
Reversed(f, g) == \A a \in DOMAIN f : f[a] \in DOMAIN g /\ g[f[a]] = a

\* the names of _hf_mapping that are factors of a LoRA adapter
IsLoraName(a) == a[Len(a)] = "weights"

\* the name of _hf_to_maxtext_mapping that is no weight
IsInvFreq(b) == b[Len(b)] = "inv_freq"

\* C24 as stated: whatever key is looked up, the two tables built with its
\* layer index and expert index are mutual inverses: each is injective,
\* every pair a -> b of _hf_mapping has the pair b -> a in
\* _hf_to_maxtext_mapping, and every pair b -> a of _hf_to_maxtext_mapping
\* has the pair a -> b in _hf_mapping.
C24_Original ==
  lookup_result # NoLookup =>
    \A f \in {_hf_mapping(LookupLayerIdx, LookupExpertIdx)},
       g \in {_hf_to_maxtext_mapping(LookupLayerIdx, LookupExpertIdx)} :
      /\ Injective(f)
      /\ Injective(g)
      /\ Reversed(f, g)
      /\ Reversed(g, f)

\* C24 amended: whatever key is looked up, each of the two tables built
\* with its layer index and expert index is injective, and the two are
\* inverses of each other on the names of the base model's weights; the
\* pairs of the LoRA factors (names ending in .weights) are in _hf_mapping
\* only, and the pair of rotary_emb.inv_freq is in _hf_to_maxtext_mapping
\* only.
C24_Amended ==
  lookup_result # NoLookup =>
    \A f \in {_hf_mapping(LookupLayerIdx, LookupExpertIdx)},
       g \in {_hf_to_maxtext_mapping(LookupLayerIdx, LookupExpertIdx)} :
      /\ Injective(f)
      /\ Injective(g)
      /\ \A a \in DOMAIN f :
           IF IsLoraName(a) THEN f[a] \notin DOMAIN g
           ELSE f[a] \in DOMAIN g /\ g[f[a]] = a
      /\ \A b \in DOMAIN g :
           IF IsInvFreq(b) THEN g[b] \notin DOMAIN f
           ELSE g[b] \in DOMAIN f /\ f[g[b]] = b
      /\ \E a \in DOMAIN f : IsLoraName(a)
      /\ \E b \in DOMAIN g : IsInvFreq(b)

\* a LoRA factor stored under its PEFT name was looked up by the name the
\* conversion uses and found through _hf_mapping, and the pair has no
\* reverse in _hf_to_maxtext_mapping
C24_Witness ==
  /\ lookup_result # NoLookup
  /\ IsLoraName(lookup_key)
  /\ Len(NumFieldsOf(lookup_key)) = 1
  /\ LET f == HfMappingOfFields(NumFieldsOf(lookup_key))
         g == _hf_to_maxtext_mapping(NumFieldsOf(lookup_key)[1], -1)
     IN /\ lookup_key \in DOMAIN f
        /\ DOMAIN collection = {f[lookup_key]}
        /\ lookup_result = Returned(TensorAt(f[lookup_key]))
        /\ f[lookup_key] \notin DOMAIN g
        /\ ~Reversed(f, g)

(***************************************************************************)
(* The RoPE decision of the two conversions.                               *)
(***************************************************************************)
\* the safetensors conversion is in or just after its attention loop
HFAttention ==
  /\ Converting
  /\ huggingface_ckpt
  /\ SoundSource
  /\ pc \in {"attention", "attention_finish"}
  /\ StackedLayers # {}

Llama3_1_Sizes == {llama3_1_8b, llama3_1_70b, llama3_1_405b}

\* the sizes whose query and key weights the legacy conversion permutes
LegacyPermutes(size) == size \notin (Llama3_1_Sizes \cup {llama3_3_70b})

\* the sizes whose query and key weights the safetensors conversion permutes
HFPermutes(size) == size \in Llama3_1_Sizes

\* C25 as stated: the two conversions make the same RoPE decision: for
\* every model size the safetensors conversion permutes the query and key
\* weights if and only if the legacy conversion permutes them for that size.
C25_Original ==
  /\ LegacyAttention => RopeLaid(LegacyPermutes(model_size))
  /\ HFAttention => RopeLaid(LegacyPermutes(model_size))

\* C25 amended: the two conversions decide differently: the legacy
\* conversion permutes the query and key weights for every size except the
\* llama3.1-* and llama3.3-* sizes, the safetensors conversion permutes them
\* for the llama3.1-* sizes only; the two agree for llama3.3-70b alone
\* (neither permutes) and differ for every other size of the table.  Neither
\* permutes the value weights.
C25_Amended ==
  /\ LegacyAttention => RopeLaid(LegacyPermutes(model_size))
  /\ HFAttention => RopeLaid(HFPermutes(model_size))
  /\ Converting => (LegacyPermutes(model_size) = HFPermutes(model_size) <=> model_size = llama3_3_70b)

\* the safetensors conversion of llama2-7b has stacked every layer
\* unpermuted, where the legacy conversion permutes
C25_Witness ==
  /\ HFAttention
  /\ pc = "attention_finish"
  /\ model_size = llama2_7b
  /\ RopeLaid(FALSE)
  /\ ~RopeLaid(TRUE)
  /\ LegacyPermutes(model_size)

(***************************************************************************)
(* Where the base checkpoint is written and what the run reports.          *)
(***************************************************************************)
\* the positions of the trace holding event ev of the base checkpoint
BaseEvents(ev) == {i \in 1 .. Len(trace) : trace[i].ev = ev /\ trace[i].unit = "base"}

\* the message at position i names the path the base checkpoint's write was
\* issued for, and follows it
ReportsTheWrite(i) ==
  \E j \in BaseEvents("write_issued") :
    /\ j < i
    /\ trace[j].path = trace[i].path
    /\ \A k \in BaseEvents("save_called") : trace[k].path = trace[i].path

\* C26: in every run, with or without a LoRA adapters path, the path the
\* base checkpoint's write is given equals the path named in the message
\* "Successfully saved base_weights to ...", and the message is emitted only
\* after that write has been issued.
C26_Original ==
  MainCalled => \A i \in BaseEvents("log_saved") : ReportsTheWrite(i)

\* a run with a LoRA adapters path: the base checkpoint was written to
\* maxtext_model_path and the message names maxtext_model_path/base
C26_Witness ==
  /\ MainCalled
  /\ args.lora_input_adapters_path = LocalAdapters
  /\ \E i \in BaseEvents("log_saved"), j \in BaseEvents("write_issued") :
       /\ j < i
       /\ trace[j].path = args.maxtext_model_path
       /\ trace[i].path = args.maxtext_model_path \o <<"base">>
       /\ trace[i].path # trace[j].path

====
